---------------------------- MODULE Spec2Model ----------------------------
(***************************************************************************)
(* Verification model of the me2resh-daily executive intelligence scan.   *)
(*                                                                         *)
(* The parts of the repository are modelled each as its own specification  *)
(* over one shared set of variables:                                       *)
(*   SpecResearch  the Perplexity-only scan: PerplexityClient              *)
(*                 .searchStructured -> ResearchService.performResearch    *)
(*                 -> ScanService.performScan (research variant)           *)
(*   SpecScan      the RSS scan: ScanService.performScan looping over the  *)
(*                 configured topics and sources, followed by the          *)
(*                 rule-based section extraction or by the report          *)
(*                 generator                                               *)
(*   SpecFetch     HttpSourceFetcher.fetchSource on one source: feed       *)
(*                 parsing, freshness cutoff, URL canonicalization,        *)
(*                 allowlist and probe                                     *)
(*   SpecValidation the probes of URL validation in flight: the map of     *)
(*                 fetchRssFeed and the batches of validateUrls            *)
(*   SpecHandler   lambdaHandler over the invocations of one container:    *)
(*                 ConfigLoader, the override of lookback_hours, the scan, *)
(*                 the email, the archive                                  *)
(*   SpecUrl       canonicalizeUrl on one string, and again on its result  *)
(*   SpecClassify  determineSeverity and determineImpact on one text       *)
(***************************************************************************)
EXTENDS Integers, Sequences, FiniteSets, TLC

VARIABLES
    \* ---- research pipeline ----
    rpc,             \* position of the research scan
    query,           \* the query built by performResearch
    searchOutcome,   \* what searchStructured settled with
    researchResult,  \* what performResearch settled with
    scanOut,         \* what performScan (research variant) settled with
    \* ---- RSS scan pipeline ----
    spc,             \* position of the RSS scan
    topics,          \* config.topics
    topicIdx,        \* index of the topic the loop is at
    sourceIdx,       \* index of the source (within the topic) the loop is at
    allFeeds,        \* allFeeds of performScan
    categorizedFeeds,\* categorizedFeeds / generationItems of performScan
    fetchLog,        \* per fetched source, in order: what fetchSource settled with
    build,           \* which ScanService variant finished the scan
    generatorReport, \* what generateReport settled with
    scanResult,      \* what performScan (RSS variants) settled with
    pendingFetch,    \* the fetchSource call performScan is awaiting, if any
    handedOver,      \* the items given to classification / to generateReport
    \* ---- source fetcher ----
    fpc,             \* position of fetchSource
    now,             \* the wall clock (ms)
    theSource,       \* the source being fetched
    lookbackHours,   \* the lookbackHours argument
    parsedFeed,      \* what rssParser.parseURL settled with
    fetchedAt,       \* the clock when parseURL settled
    cutoffTime,      \* cutoffTime of fetchRssFeed
    feedItems,       \* feedItems of fetchRssFeed, one slot per processed entry
    probeLog,        \* per feed entry, the probes sent for it and their results
    fetchResult,     \* what fetchSource settled with
    enableUrlValidation, \* the deployment parameter EnableUrlValidation
    \* ---- URL validation probes ----
    vpc,             \* position of the validation of a list of candidate URLs
    validator,       \* who validates: fetchRssFeed's map, or validateUrls
    candidates,      \* the number of candidate URLs
    probeState,      \* per candidate: waiting, head or get probe in flight, settled
    batchStart,      \* i of the loop of validateUrls
    \* ---- the Lambda handler ----
    hpc,             \* position of lambdaHandler
    invocation,      \* how many invocations this container has served
    event,           \* the event of the invocation
    cachedConfig,    \* ConfigLoader.config, the cache of the singleton
    configFile,      \* whether config/sources.yaml can be read and parsed
    apiKey,          \* whether PERPLEXITY_API_KEY is set
    run,             \* the invocation in progress
    runLog,          \* the invocations that ended, in order
    \* ---- canonicalizeUrl on one string ----
    upc,             \* position of the canonicalization
    rawUrl,          \* the argument of canonicalizeUrl
    canonicalized,   \* what canonicalizeUrl returned
    recanonicalized, \* what canonicalizeUrl returned for that result
    \* ---- determineSeverity and determineImpact on one text ----
    cpc,             \* which of the two have returned
    theContent,      \* the content argument
    theRules,        \* config.severity_rules
    theImpactMap,    \* Object.entries(config.impact_keywords)
    severityOut,     \* what determineSeverity returned
    impactsOut       \* what determineImpact returned

researchVars == <<rpc, query, searchOutcome, researchResult, scanOut>>
scanVars == <<spc, topics, topicIdx, sourceIdx, allFeeds, categorizedFeeds,
              fetchLog, build, generatorReport, scanResult, pendingFetch, handedOver>>
fetchVars == <<fpc, now, theSource, lookbackHours, parsedFeed, fetchedAt, cutoffTime,
               feedItems, probeLog, fetchResult, enableUrlValidation>>
validationVars == <<vpc, validator, candidates, probeState, batchStart>>
handlerVars == <<hpc, invocation, event, cachedConfig, configFile, apiKey, run, runLog>>
urlVars == <<upc, rawUrl, canonicalized, recanonicalized>>
classifyVars == <<cpc, theContent, theRules, theImpactMap, severityOut, impactsOut>>
vars == <<researchVars, scanVars, fetchVars, validationVars, handlerVars, urlVars,
          classifyVars>>

\* what the steps of one pipeline leave alone: the state of the others
notResearchVars == <<scanVars, fetchVars, validationVars, handlerVars, urlVars,
    classifyVars>>
notScanVars == <<researchVars, fetchVars, validationVars, handlerVars, urlVars,
    classifyVars>>
notFetchVars == <<researchVars, scanVars, validationVars, handlerVars, urlVars,
    classifyVars>>
notValidationVars == <<researchVars, scanVars, fetchVars, handlerVars, urlVars,
    classifyVars>>
notHandlerVars == <<researchVars, scanVars, fetchVars, validationVars, urlVars,
    classifyVars>>
notClassifyVars == <<researchVars, scanVars, fetchVars, validationVars, handlerVars,
                     urlVars>>
notUrlVars == <<researchVars, scanVars, fetchVars, validationVars, handlerVars,
    classifyVars>>

(***************************************************************************)
(* JavaScript values.  A value that may be undefined, null or an array is  *)
(* a tagged record, so that `x || []` is modelled by what it does.         *)
(***************************************************************************)
Undefined == [t |-> "undefined"]
Null == [t |-> "null"]
Arr(s) == [t |-> "array", items |-> s]
EmptyArr == Arr(<<>>)
Str(s) == [t |-> "string", s |-> s]
Obj(f) == [t |-> "object", fields |-> f]

\* obj[key] of a JS object, whose fields are a function over its own keys
Get(obj, key) == IF key \in DOMAIN obj.fields THEN obj.fields[key] ELSE Undefined

\* truthiness of undefined / null / array values
Truthy(v) == v.t = "array"

\* v || []   (a mutant that forgets the default)
OrEmpty_Passthrough(v) == v

\* v || []
OrEmpty(v) == IF Truthy(v) THEN v ELSE EmptyArr

\* the items of a section value
Items(v) == IF v.t = "array" THEN v.items ELSE <<>>

(***************************************************************************)
(* The section taxonomy of ScanResult (research variant).                  *)
(***************************************************************************)
SectionKeys == {"top_signals", "trend_watchlist", "security_alerts",
                "aws_platform_changes", "ai_trends", "corporate_competitors",
                "developer_experience", "raw_feed"}

\* the report sections that hold selected items (everything but raw_feed)
SelectionKeys == SectionKeys \ {"raw_feed"}

ScanDate == "2025-10-22"
Timezone == "Europe/London"
TheQuery == "comprehensive query"
IsoNow == "iso-now"

\* ---- bounds of the research pipeline ----
MaxSectionLen == 6

\* an opaque section of n collaborator-written entries
SectionOfLen(n) == Arr([i \in 1..n |-> i])

\* the values the collaborator may put under a section key
SectionValues == {Null, SectionOfLen(0), SectionOfLen(MaxSectionLen)}

\* every JSON object the collaborator can answer with: any subset of the
\* section keys, each present key null, an empty or a long array
Reports == {Obj(f) : f \in UNION {[D -> SectionValues] : D \in SUBSET SectionKeys}}

\* what the HTTP call and the body of the answer can be
ApiResponses ==
    {[kind |-> "network_error"], [kind |-> "http_error"],
     [kind |-> "not_json"], [kind |-> "json_null"]}
    \cup {[kind |-> "json_object", parsed |-> r] : r \in Reports}

Raised == [raised |-> TRUE]
Returned(v) == [raised |-> FALSE, value |-> v]

\* PerplexityClient.searchStructured: fetch, !response.ok -> throw,
\* JSON.parse of the content -> throw when it is not JSON, else the parsed value
SearchStructured(resp) ==
    CASE resp.kind = "network_error" -> Raised
      [] resp.kind = "http_error" -> Raised
      [] resp.kind = "not_json" -> Raised
      [] resp.kind = "json_null" -> Returned(Null)
      [] OTHER -> Returned(resp.parsed)

\* the report performResearch substitutes when the collaborator fails
EmptyReport ==
    Obj([k \in SectionKeys \cup {"date", "timezone"} |->
            IF k = "date" THEN Str(ScanDate)
            ELSE IF k = "timezone" THEN Str(Timezone)
            ELSE EmptyArr])

\* a mutant of performResearch whose catch block rethrows
PerformResearch_Rethrow(outcome, q) ==
    IF outcome.raised \/ outcome.value = Null
    THEN Raised
    ELSE Returned([report |-> outcome.value, query |-> q])

\* ResearchService.performResearch: try { report = await searchStructured;
\* log report.top_signals?.length ...; return {report, query} }
\* catch { return {report: all-empty, query} }.  A parsed null makes the log
\* line throw a TypeError inside the try, so it ends in the catch as well.
PerformResearch(outcome, q) ==
    IF outcome.raised \/ outcome.value = Null
    THEN Returned([report |-> EmptyReport, query |-> q])
    ELSE Returned([report |-> outcome.value, query |-> q])

\* ScanService.performScan (research variant) after the await: an exception of
\* performResearch propagates; otherwise the ScanResult is assembled with
\* every section defaulted by `|| []`
AssembleResearchScan(research) ==
    IF research.raised
    THEN [status |-> "raised"]
    ELSE [status |-> "returned",
          scanResult |->
              Obj([k \in SectionKeys \cup {"date", "timezone"} |->
                      IF k = "date" THEN Str(ScanDate)
                      ELSE IF k = "timezone" THEN Str(Timezone)
                      ELSE OrEmpty(Get(research.value.report, k))]),
          prompts |-> [perplexity |-> [query |-> research.value.query,
                                       timestamp |-> IsoNow]]]


(***************************************************************************)
(* The research pipeline, step by step.                                    *)
(***************************************************************************)
NotYet == [status |-> "pending"]

ResearchIdle ==
    /\ rpc = "idle"
    /\ query = ""
    /\ searchOutcome = NotYet
    /\ researchResult = NotYet
    /\ scanOut = NotYet

ResearchInit ==
    /\ rpc = "start"
    /\ query = ""
    /\ searchOutcome = NotYet
    /\ researchResult = NotYet
    /\ scanOut = NotYet

\* performScan is called: it calls performResearch, which builds the query
\* and sends it to the collaborator
PerformScanCallsResearch ==
    /\ rpc = "start"
    /\ rpc' = "searching"
    /\ query' = TheQuery
    /\ UNCHANGED <<searchOutcome, researchResult, scanOut, notResearchVars>>

\* the collaborator call settles: an API error, an answer that is not JSON,
\* or a parsed JSON value
SearchStructuredSettles ==
    /\ rpc = "searching"
    /\ \E resp \in ApiResponses :
          searchOutcome' = [status |-> "settled", response |-> resp,
                            outcome |-> SearchStructured(resp)]
    /\ rpc' = "searched"
    /\ UNCHANGED <<query, researchResult, scanOut, notResearchVars>>

\* performResearch resumes after its await and settles
PerformResearchSettles ==
    /\ rpc = "searched"
    /\ researchResult' = PerformResearch(searchOutcome.outcome, query)
    /\ rpc' = "researched"
    /\ UNCHANGED <<query, searchOutcome, scanOut, notResearchVars>>

\* performScan resumes after its await and settles
PerformScanSettles ==
    /\ rpc = "researched"
    /\ scanOut' = AssembleResearchScan(researchResult)
    /\ rpc' = "done"
    /\ UNCHANGED <<query, searchOutcome, researchResult, notResearchVars>>

ResearchNext ==
    \/ PerformScanCallsResearch
    \/ SearchStructuredSettles
    \/ PerformResearchSettles
    \/ PerformScanSettles


(***************************************************************************)
(* Strings are sequences of one-character strings, so that toLowerCase and *)
(* includes are computed and not assumed.                                  *)
(***************************************************************************)
UpperToLower == [c \in {"A", "C", "D", "E", "H", "P", "R", "S", "V", "W", "X"} |->
                    CASE c = "A" -> "a" [] c = "C" -> "c" [] c = "D" -> "d"
                      [] c = "E" -> "e" [] c = "H" -> "h" [] c = "P" -> "p"
                      [] c = "R" -> "r" [] c = "S" -> "s" [] c = "V" -> "v"
                      [] c = "W" -> "w" [] c = "X" -> "x"]

\* String.prototype.toLowerCase
ToLowerCase(s) ==
    [i \in 1..Len(s) |-> IF s[i] \in DOMAIN UpperToLower THEN UpperToLower[s[i]] ELSE s[i]]

\* String.prototype.includes
Includes(s, k) ==
    \E i \in 0..(Len(s) - Len(k)) : SubSeq(s, i + 1, i + Len(k)) = k

(***************************************************************************)
(* URLs.  A URL string is modelled by what `new URL(string)` makes of it:  *)
(* either it does not parse (ok = FALSE, the text kept as it is), or it    *)
(* has a protocol, a hostname, a pathname (a sequence of characters) and   *)
(* an ordered list of query parameter names.                               *)
(***************************************************************************)
Url(proto, host, path, params) ==
    [ok |-> TRUE, protocol |-> proto, hostname |-> host, pathname |-> path,
     params |-> params, text |-> ""]
BadUrl(text) ==
    [ok |-> FALSE, protocol |-> "", hostname |-> "", pathname |-> <<>>,
     params |-> <<>>, text |-> text]

TrackingParams == {"utm_source", "utm_medium", "utm_campaign", "utm_term",
                   "utm_content", "gclid", "fbclid", "igshid", "_ga",
                   "mc_cid", "mc_eid"}

\* a list that holds utm_source alone (a mutant)
NotTracking_UtmSourceOnly(p) == p # "utm_source"

NotTracking(p) == p \notin TrackingParams

\* canonicalizeUrl: force https, delete the tracking parameters, drop one
\* trailing slash of a non-root path; a string that does not parse is
\* returned as it is
CanonicalizeUrl(u) ==
    IF ~u.ok THEN u
    ELSE [u EXCEPT
            !.protocol = "https:",
            !.params = SelectSeq(u.params, NotTracking),
            !.pathname = IF u.pathname # <<"/">> /\ Len(u.pathname) > 0
                            /\ u.pathname[Len(u.pathname)] = "/"
                         THEN SubSeq(u.pathname, 1, Len(u.pathname) - 1)
                         ELSE u.pathname]

\* the hosts of ALLOWLIST the model uses, and one host outside it
HostAws == "aws.amazon.com"
HostGithub == "github.com"
HostOutside == "example.com"
ALLOWLIST == {HostAws, HostGithub, "docs.aws.amazon.com", "fda.gov", "openai.com"}

\* isDomainAllowed
IsDomainAllowed(u) == u.ok /\ u.hostname \in ALLOWLIST

UrlIdle ==
    /\ upc = "idle"
    /\ rawUrl = BadUrl(<<>>)
    /\ canonicalized = NotYet
    /\ recanonicalized = NotYet

\* a timestamp in its ISO-8601 spelling
Iso(t) == [iso |-> t]

HourMs == 60 * 60 * 1000

(***************************************************************************)
(* The RSS scan: configuration.                                            *)
(***************************************************************************)
\* topics as sources.yaml lists them: a name, a category and a priority each
TopicPool ==
    {[name |-> <<"A", "W", "S">>, category |-> "aws_platform", priority |-> 1],
     [name |-> <<"S", "e", "c">>, category |-> "security", priority |-> 1],
     [name |-> <<"A", "i", "H">>, category |-> "ai_healthcare", priority |-> 2],
     [name |-> <<"A", "i", "P">>, category |-> "ai_platform", priority |-> 2],
     [name |-> <<"C", "o">>, category |-> "corporate", priority |-> 3],
     [name |-> <<"D", "X">>, category |-> "developer_experience", priority |-> 2],
     [name |-> <<"R", "e", "l">>, category |-> "releases", priority |-> 3],
     [name |-> <<"S", "t", "d">>, category |-> "standards", priority |-> 2]}

RssSource(n) == [name |-> n, type |-> "rss",
                 url |-> Url("https:", HostAws, <<"/", "f">>, <<>>)]

WithSources(topic, srcs) ==
    [name |-> topic.name, category |-> topic.category,
     priority |-> topic.priority, sources |-> srcs]

\* the configurations: one topic with one or two sources, or two topics with
\* one source each
Configs ==
    {<<WithSources(t, <<RssSource("s1")>>)>> : t \in TopicPool}
    \cup {<<WithSources(t, <<RssSource("s1"), RssSource("s2")>>)>> : t \in TopicPool}
    \cup {<<WithSources(t[1], <<RssSource("s1")>>), WithSources(t[2], <<RssSource("s2")>>)>>
            : t \in TopicPool \X TopicPool}

\* config.severity_rules and config.impact_keywords (in the order
\* Object.entries yields them)
SeverityRules ==
    [high |-> << <<"c", "v", "e">> >>,
     medium |-> << <<"A", "W", "S">> >>,
     low |-> <<>>]
ImpactKeywords ==
    << [tag |-> "Security", keywords |-> << <<"C", "V", "E">> >>],
       [tag |-> "Platform", keywords |-> << <<"a", "w", "s">> >>],
       [tag |-> "DX", keywords |-> << <<"d", "x">>, <<"r", "e", "l">> >>] >>

\* ---- bounds of the RSS scan ----
MaxFeedLen == 2

UrlAwsA == Url("https:", HostAws, <<"/", "a">>, <<>>)
UrlGithubB == Url("https:", HostGithub, <<"/", "b">>, <<>>)

\* the entries a fetch may return (the fetcher adds the source name)
EntryPool ==
    {[title |-> <<"C", "V", "E">>, source_url |-> UrlAwsA, published_at |-> Iso(1 * HourMs)],
     [title |-> <<"f", "y", "i">>, source_url |-> UrlAwsA, published_at |-> Iso(2 * HourMs)],
     [title |-> <<"f", "y", "i">>, source_url |-> UrlGithubB, published_at |-> Iso(1 * HourMs)]}

SeqsUpTo(S, n) == UNION {[1..k -> S] : k \in 0..n}

\* what the fetch of one source can settle with: a network or a parse error
\* inside HttpSourceFetcher, a SourceFetcher whose fetchSource rejects, or
\* the entries of the feed
FetchOutcomes ==
    {[kind |-> "network_error"], [kind |-> "parse_error"], [kind |-> "fetcher_rejects"]}
    \cup {[kind |-> "entries", entries |-> e] : e \in SeqsUpTo(EntryPool, MaxFeedLen)}

\* SourceFetcher.fetchSource as performScan sees it: HttpSourceFetcher turns
\* every network or parse error into an empty list; the entries become
\* RawFeed items carrying the source's name
FetchSourceSettled(src, outcome) ==
    CASE outcome.kind = "fetcher_rejects" -> Raised
      [] outcome.kind \in {"network_error", "parse_error"} -> Returned(<<>>)
      [] OTHER ->
          Returned([i \in 1..Len(outcome.entries) |->
                      [title |-> outcome.entries[i].title,
                       source |-> src.name,
                       source_url |-> outcome.entries[i].source_url,
                       published_at |-> outcome.entries[i].published_at]])

(***************************************************************************)
(* The RSS scan: classification (rule-based variant of ScanService).       *)
(***************************************************************************)
AnyKeywordIn(contentLower, keywords) ==
    \E i \in 1..Len(keywords) : Includes(contentLower, ToLowerCase(keywords[i]))

\* the medium keywords looked at before the high ones (a mutant)
DetermineSeverityWith_MediumFirst(rules, content) ==
    IF AnyKeywordIn(ToLowerCase(content), rules.medium) THEN "medium"
    ELSE IF AnyKeywordIn(ToLowerCase(content), rules.high) THEN "high"
    ELSE "low"

\* determineSeverity: the high keywords first, then the medium ones, else low
DetermineSeverityWith(rules, content) ==
    IF AnyKeywordIn(ToLowerCase(content), rules.high) THEN "high"
    ELSE IF AnyKeywordIn(ToLowerCase(content), rules.medium) THEN "medium"
    ELSE "low"

\* determineSeverity under the configuration of the scan
DetermineSeverity(content) == DetermineSeverityWith(SeverityRules, content)

TagOf(e) == e.tag

\* determineImpact without its fallback (a mutant)
DetermineImpactWith_NoFallback(map, content) ==
    LET matching == SelectSeq(map,
                        LAMBDA e : AnyKeywordIn(ToLowerCase(content), e.keywords))
    IN [i \in 1..Len(matching) |-> matching[i].tag]

\* determineImpact: every tag one of whose keywords matches, in the order of
\* impact_keywords; Platform when none matches
DetermineImpactWith(map, content) ==
    LET matching == SelectSeq(map,
                        LAMBDA e : AnyKeywordIn(ToLowerCase(content), e.keywords))
        impacts == [i \in 1..Len(matching) |-> matching[i].tag]
    IN IF Len(impacts) > 0 THEN impacts ELSE <<"Platform">>

\* determineImpact under the configuration of the scan
DetermineImpact(content) == DetermineImpactWith(ImpactKeywords, content)

\* the annotation performScan gives a fetched item: the topic's name,
\* category and priority, the source's type, and severity and impacts of
\* `${feed.title} ${topic.name}`
Annotate(item, topic, src) ==
    LET content == item.title \o <<" ">> \o topic.name
    IN [title |-> item.title, source |-> item.source,
        source_url |-> item.source_url, published_at |-> item.published_at,
        topic |-> topic.name, category |-> topic.category,
        priority |-> topic.priority, source_type |-> src.type,
        severity |-> DetermineSeverity(content),
        impacts |-> DetermineImpact(content)]

SeverityRank(sev) == CASE sev = "high" -> 0 [] sev = "medium" -> 1 [] OTHER -> 2

\* the comparator of extractTopSignals
CompareTopSignals(a, b) ==
    IF SeverityRank(a.severity) - SeverityRank(b.severity) # 0
    THEN SeverityRank(a.severity) - SeverityRank(b.severity)
    ELSE a.priority - b.priority

\* Array.prototype.sort with that comparator (a stable sort)
RECURSIVE InsertTopSignal(_, _)
InsertTopSignal(sorted, x) ==
    IF sorted = <<>> THEN <<x>>
    ELSE IF CompareTopSignals(sorted[Len(sorted)], x) <= 0 THEN Append(sorted, x)
    ELSE Append(InsertTopSignal(SubSeq(sorted, 1, Len(sorted) - 1), x),
                sorted[Len(sorted)])

RECURSIVE SortTopSignals(_)
SortTopSignals(feeds) ==
    IF feeds = <<>> THEN <<>>
    ELSE InsertTopSignal(SortTopSignals(SubSeq(feeds, 1, Len(feeds) - 1)),
                         feeds[Len(feeds)])

\* no slice at all (a mutant)
Slice0_Whole(s, n) == s

\* Array.prototype.slice(0, n)
Slice0(s, n) == SubSeq(s, 1, IF Len(s) < n THEN Len(s) ELSE n)

MaxItemsPerCategory == 5
TopSignalMaxPriority == 2

BuildWhyItMatters(feed) ==
    CASE feed.category = "security" -> "Security advisory detected"
      [] feed.category = "aws_platform" -> "Platform change may affect cloud workloads"
      [] feed.category = "ai_platform" -> "AI platform development"
      [] feed.category = "ai_healthcare" -> "Healthcare AI update"
      [] feed.category = "corporate" -> "Corporate development"
      [] feed.category = "developer_experience" -> "Developer experience insight"
      [] feed.category = "releases" -> "Release update"
      [] feed.category = "standards" -> "Standards update"
      [] OTHER -> "Insight from topic"

IsTopCandidate(feed) == feed.priority <= TopSignalMaxPriority

\* extractTopSignals: priority <= 2, sorted by severity then priority, the
\* first five
ExtractTopSignals(feeds) ==
    LET top == Slice0(SortTopSignals(SelectSeq(feeds, IsTopCandidate)), MaxItemsPerCategory)
    IN [i \in 1..Len(top) |->
          [title |-> top[i].title, why_it_matters |-> BuildWhyItMatters(top[i]),
           impact |-> top[i].impacts, severity |-> top[i].severity,
           source_url |-> top[i].source_url, published_at |-> top[i].published_at,
           notes_for_actions |-> <<>>]]

\* the items of one of the named categories, mapped to the records of the
\* section (the fields derived by regular expressions are left out)
FeedsOfCategories(feeds, cats) == SelectSeq(feeds, LAMBDA f : f.category \in cats)

ExtractSecurityAlerts(feeds) ==
    LET fs == FeedsOfCategories(feeds, {"security"})
    IN [i \in 1..Len(fs) |->
          [component |-> fs[i].source, cvss |-> "N/A", summary |-> fs[i].title,
           affected_versions |-> "See source", source_url |-> fs[i].source_url]]

ExtractAwsPlatformChanges(feeds) ==
    LET fs == FeedsOfCategories(feeds, {"aws_platform"})
    IN [i \in 1..Len(fs) |->
          [service |-> fs[i].source, change |-> fs[i].title,
           severity |-> fs[i].severity, source_url |-> fs[i].source_url]]

ExtractAiTrends(feeds) ==
    LET fs == FeedsOfCategories(feeds, {"ai_healthcare", "ai_platform"})
    IN [i \in 1..Len(fs) |->
          [item |-> fs[i].title,
           category |-> IF fs[i].category = "ai_healthcare" THEN "clinical" ELSE "platform",
           summary |-> BuildWhyItMatters(fs[i]), impact |-> fs[i].impacts,
           source_url |-> fs[i].source_url, published_at |-> fs[i].published_at]]

ExtractCorporateNews(feeds) ==
    LET fs == FeedsOfCategories(feeds, {"corporate"})
    IN [i \in 1..Len(fs) |->
          [item |-> fs[i].title, summary |-> BuildWhyItMatters(fs[i]),
           source_url |-> fs[i].source_url, published_at |-> fs[i].published_at]]

ExtractDeveloperExperience(feeds) ==
    LET fs == FeedsOfCategories(feeds, {"developer_experience"})
    IN [i \in 1..Len(fs) |->
          [pattern_or_tool |-> fs[i].title, update |-> BuildWhyItMatters(fs[i]),
           source |-> fs[i].source, severity |-> fs[i].severity]]

\* a set that forgets developer_experience (a mutant)
ExcludedCategories_WithoutDx == {"security", "aws_platform", "ai_healthcare",
                                 "ai_platform", "corporate"}

ExcludedCategories == {"security", "aws_platform", "ai_healthcare", "ai_platform",
                       "corporate", "developer_experience"}

\* the values of s without repetition, in order of first appearance
RECURSIVE Distinct(_)
Distinct(s) ==
    IF s = <<>> THEN <<>>
    ELSE LET front == Distinct(SubSeq(s, 1, Len(s) - 1))
         IN IF \E i \in 1..Len(front) : front[i] = s[Len(s)]
            THEN front ELSE Append(front, s[Len(s)])

\* extractTrendWatchlist: the items outside the named categories, grouped by
\* category in order of first appearance, one entry per group
ExtractTrendWatchlist(feeds) ==
    LET rest == SelectSeq(feeds, LAMBDA f : f.category \notin ExcludedCategories)
        cats == Distinct([i \in 1..Len(rest) |-> rest[i].category])
    IN [g \in 1..Len(cats) |->
          LET items == SelectSeq(rest, LAMBDA f : f.category = cats[g])
          IN [topic |-> cats[g], count |-> Len(items),
              trajectory |-> IF Len(items) > 3 THEN "rising"
                             ELSE IF Len(items) > 1 THEN "stable" ELSE "fading",
              sources |-> Distinct([i \in 1..Len(items) |-> items[i].source])]]

\* the section keys of the ScanResult of the RSS variants
RssSectionKeys == {"top_signals", "trend_watchlist", "security_alerts",
                   "aws_platform_changes", "ai_trends", "corporate_hims_hers",
                   "developer_experience", "raw_feed"}

RssScanResult(sections) ==
    Obj([k \in RssSectionKeys \cup {"date", "timezone"} |->
            IF k = "date" THEN Str(ScanDate)
            ELSE IF k = "timezone" THEN Str(Timezone)
            ELSE sections[k]])

\* performScan of the placeholder variant after the loop: the raw feed and
\* sections the placeholder extractors leave empty
AssemblePlaceholderScan(feeds) ==
    RssScanResult([k \in RssSectionKeys |-> IF k = "raw_feed" THEN Arr(feeds) ELSE EmptyArr])

\* performScan of the rule-based variant after the loop
AssembleRuleScan(feeds, categorized) ==
    RssScanResult(
        [k \in RssSectionKeys |->
            CASE k = "raw_feed" -> Arr(feeds)
              [] k = "top_signals" -> Arr(ExtractTopSignals(categorized))
              [] k = "security_alerts" -> Arr(ExtractSecurityAlerts(categorized))
              [] k = "aws_platform_changes" -> Arr(ExtractAwsPlatformChanges(categorized))
              [] k = "ai_trends" -> Arr(ExtractAiTrends(categorized))
              [] k = "corporate_hims_hers" -> Arr(ExtractCorporateNews(categorized))
              [] k = "developer_experience" -> Arr(ExtractDeveloperExperience(categorized))
              [] OTHER -> Arr(ExtractTrendWatchlist(categorized))])

(***************************************************************************)
(* The RSS scan: report-generator variant of ScanService.                  *)
(***************************************************************************)
\* buildGenerationItem
BuildGenerationItem(c) ==
    [title |-> c.title, source |-> c.source, source_url |-> c.source_url,
     published_at |-> c.published_at, topic |-> c.topic, category |-> c.category,
     priority |-> c.priority, source_type |-> c.source_type]

GenerationItems(categorized) ==
    [i \in 1..Len(categorized) |-> BuildGenerationItem(categorized[i])]

GeneratorRawItem ==
    [title |-> <<"f", "y", "i">>, source |-> "generator", source_url |-> UrlGithubB,
     published_at |-> Iso(1 * HourMs)]

\* what generateReport can settle with: it rejects, or it answers with an
\* object that has none, or all, of the section keys, with or without items
GeneratorOutcomes ==
    {[kind |-> "rejects"],
     [kind |-> "report", report |-> Obj(<<>>)],
     [kind |-> "report",
      report |-> Obj([k \in RssSectionKeys |-> EmptyArr])],
     [kind |-> "report",
      report |-> Obj([k \in RssSectionKeys |->
                        IF k = "raw_feed" THEN Arr(<<GeneratorRawItem>>)
                        ELSE SectionOfLen(MaxSectionLen)])]}

\* report.raw_feed || []  in the place of the fallback (a mutant)
RawFeedOrCollected_GeneratorOnly(report, feeds) == OrEmpty(Get(report, "raw_feed"))

\* report.raw_feed && report.raw_feed.length > 0 ? report.raw_feed : allFeeds
RawFeedOrCollected(report, feeds) ==
    IF Truthy(Get(report, "raw_feed")) /\ Len(Get(report, "raw_feed").items) > 0
    THEN Get(report, "raw_feed")
    ELSE Arr(feeds)

\* performScan of the report-generator variant after generateReport settled
AssembleGeneratedScan(outcome, feeds) ==
    IF outcome.kind = "rejects"
    THEN [status |-> "raised"]
    ELSE [status |-> "returned",
          result |-> RssScanResult(
              [k \in RssSectionKeys |->
                  IF k = "raw_feed" THEN RawFeedOrCollected(outcome.report, feeds)
                  ELSE OrEmpty(Get(outcome.report, k))])]

(***************************************************************************)
(* The RSS scan, step by step.                                             *)
(***************************************************************************)
\* the promise of fetchSource that performScan awaits
NoFetch == [pending |-> FALSE]
PendingFetchOf(src) == [pending |-> TRUE, source |-> src.name]

ScanInit ==
    /\ spc = "fetching"
    /\ topics \in Configs
    /\ topicIdx = 1
    /\ sourceIdx = 1
    /\ allFeeds = <<>>
    /\ categorizedFeeds = <<>>
    /\ fetchLog = <<>>
    /\ build = "none"
    /\ generatorReport = NotYet
    /\ scanResult = NotYet
    /\ pendingFetch = NoFetch
    /\ handedOver = NotYet

\* a mutant with one try/catch around both loops: the first rejected fetch
\* ends the fetching
ContinueWithNextSource_TryAroundLoops(cfg, ti, si, r) ==
    IF r.raised THEN <<Len(cfg) + 1, 1>>
    ELSE IF si < Len(cfg[ti].sources) THEN <<ti, si + 1>> ELSE <<ti + 1, 1>>

\* the two nested for-loops of performScan: the try/catch sits inside the
\* inner loop, so the loop goes on to the next source of the topic, then to
\* the next topic, whether or not the fetch r rejected
ContinueWithNextSource(cfg, ti, si, r) ==
    IF si < Len(cfg[ti].sources) THEN <<ti, si + 1>> ELSE <<ti + 1, 1>>

\* a mutant that leaves the loops after the first topic
LoopsDone_AfterFirstTopic(cfg, ti) == ti > 1

\* both for-loops have run to their end
LoopsDone(cfg, ti) == ti > Len(cfg)

\* what the body of the try block pushes
PushFetched(feeds, r) == IF r.raised THEN feeds ELSE feeds \o r.value

\* one turn of the inner loop begins: fetchSource(source, lookback_hours) is
\* called and awaited
FetchSourceStarts ==
    /\ spc = "fetching"
    /\ topicIdx <= Len(topics)
    /\ pendingFetch' = PendingFetchOf(topics[topicIdx].sources[sourceIdx])
    /\ spc' = "awaiting"
    /\ UNCHANGED <<topics, topicIdx, sourceIdx, allFeeds, categorizedFeeds, fetchLog,
                   build, generatorReport, scanResult, handedOver, notScanVars>>

\* the awaited fetchSource settles: its items and their annotations are
\* pushed, a rejection is logged and skipped; then the loops go on
FetchNextSource ==
    /\ spc = "awaiting"
    /\ pendingFetch' = NoFetch
    /\ \E outcome \in FetchOutcomes :
          LET topic == topics[topicIdx]
              src == topic.sources[sourceIdx]
              r == FetchSourceSettled(src, outcome)
              annotated == IF r.raised THEN r
                           ELSE Returned([i \in 1..Len(r.value) |->
                                            Annotate(r.value[i], topic, src)])
              pos == ContinueWithNextSource(topics, topicIdx, sourceIdx, r)
          IN /\ allFeeds' = PushFetched(allFeeds, r)
             /\ categorizedFeeds' = PushFetched(categorizedFeeds, annotated)
             /\ fetchLog' = Append(fetchLog, [source |-> src.name, topic |-> topic.name,
                                              outcome |-> outcome])
             /\ topicIdx' = pos[1]
             /\ sourceIdx' = pos[2]
             /\ spc' = IF LoopsDone(topics, pos[1]) THEN "fetched" ELSE "fetching"
    /\ UNCHANGED <<topics, build, generatorReport, scanResult, handedOver, notScanVars>>

\* the placeholder variant finishes: raw_feed = allFeeds, empty sections
FinishPlaceholderScan ==
    /\ spc = "fetched"
    /\ build' = "placeholder"
    /\ scanResult' = [status |-> "returned", result |-> AssemblePlaceholderScan(allFeeds)]
    /\ handedOver' = allFeeds
    /\ spc' = "done"
    /\ UNCHANGED <<topics, topicIdx, sourceIdx, allFeeds, categorizedFeeds, fetchLog,
                   generatorReport, pendingFetch, notScanVars>>

\* the rule-based variant finishes: raw_feed = allFeeds, sections extracted
FinishRuleScan ==
    /\ spc = "fetched"
    /\ build' = "rules"
    /\ scanResult' = [status |-> "returned",
                      result |-> AssembleRuleScan(allFeeds, categorizedFeeds)]
    /\ handedOver' = categorizedFeeds
    /\ spc' = "done"
    /\ UNCHANGED <<topics, topicIdx, sourceIdx, allFeeds, categorizedFeeds, fetchLog,
                   generatorReport, pendingFetch, notScanVars>>

\* the report-generator variant finishes: generateReport settles
FinishGeneratedScan ==
    /\ spc = "fetched"
    /\ build' = "generator"
    /\ \E outcome \in GeneratorOutcomes :
          /\ generatorReport' = outcome
          /\ scanResult' = AssembleGeneratedScan(outcome, allFeeds)
    /\ handedOver' = GenerationItems(categorizedFeeds)
    /\ spc' = "done"
    /\ UNCHANGED <<topics, topicIdx, sourceIdx, allFeeds, categorizedFeeds, fetchLog,
                   pendingFetch, notScanVars>>

ScanNext ==
    \/ FetchSourceStarts
    \/ FetchNextSource
    \/ FinishPlaceholderScan
    \/ FinishRuleScan
    \/ FinishGeneratedScan

(***************************************************************************)
(* HttpSourceFetcher.fetchSource (the validating fetcher).                 *)
(***************************************************************************)
\* ---- dates ----
\* a Date object: an instant in ms, or the Invalid Date (getTime() is NaN)
DateAt(ms) == [nan |-> FALSE, ms |-> ms]
InvalidDate == [nan |-> TRUE]

\* the date strings of a feed entry: a string that spells the instant ms, or
\* a string that does not parse
DateString(ms) == [t |-> "string", parses |-> TRUE, ms |-> ms]
GarbageDateString == [t |-> "string", parses |-> FALSE]

\* new Date(string)
ParseDate(str) == IF str.parses THEN DateAt(str.ms) ELSE InvalidDate

\* Date.prototype.toISOString: throws a RangeError on the Invalid Date
ToISOString(d) == IF d.nan THEN Raised ELSE Returned(Iso(d.ms))

\* a || b of two optional strings
OrElse(a, b) == IF a.t # "undefined" THEN a ELSE b

MaxEntriesPerFeed == 50

\* a mutant that takes lookbackHours for days
CutoffOf_Days(clock, hours) == clock - hours * 24 * HourMs

\* cutoffTime = Date.now() - lookbackHours * 60 * 60 * 1000
CutoffOf(clock, hours) == clock - hours * HourMs

\* the freshness check of processRssItem: only a parsed date can be too old
TooOld(publishedAt, cutoff) == ~publishedAt.nan /\ publishedAt.ms < cutoff

\* ---- the inputs of the fetcher ----
Now0 == 100 * HourMs
ClockTick == 1
LookbackChoices == {0, 1, 24}

FeedUrl == Url("https:", HostAws, <<"/", "f">>, <<>>)
FetcherSources ==
    {[name |-> "AWS Blog", type |-> "rss", url |-> FeedUrl],
     [name |-> "AWS Docs", type |-> "html", url |-> FeedUrl]}

TitleText == [t |-> "string", text |-> <<"C", "V", "E">>]
\* the link of an entry: a string, given by the URL it spells
LinkString(u) == [t |-> "string", url |-> u]
LinkAwsRaw == LinkString(Url("http:", HostAws, <<"/", "a", "/">>, <<"utm_source", "id">>))
LinkAws == LinkString(Url("https:", HostAws, <<"/", "a">>, <<"id">>))
LinkOutside == LinkString(Url("https:", HostOutside, <<"/", "x">>, <<>>))
LinkBad == LinkString(BadUrl("not a url"))
LinkAwsSlashes == LinkString(Url("https:", HostAws, <<"/", "a", "/", "/">>, <<>>))

EdgeDate == Now0 - 24 * HourMs
RssEntry(title, link, isoDate, pubDate) ==
    [title |-> title, link |-> link, isoDate |-> isoDate, pubDate |-> pubDate]

\* the entries rss-parser may deliver
RssEntryPool ==
    {RssEntry(TitleText, LinkAwsRaw, DateString(Now0), Undefined),
     RssEntry(TitleText, LinkAws, DateString(EdgeDate - 1), Undefined),
     RssEntry(TitleText, LinkAws, DateString(EdgeDate), Undefined),
     RssEntry(TitleText, LinkAws, GarbageDateString, Undefined),
     RssEntry(TitleText, LinkAws, Undefined, Undefined),
     RssEntry(TitleText, LinkAws, Undefined, DateString(EdgeDate - 1)),
     RssEntry(Undefined, LinkOutside, DateString(Now0), Undefined),
     RssEntry(Undefined, LinkAws, DateString(Now0), Undefined),
     RssEntry(TitleText, LinkAwsSlashes, DateString(Now0), Undefined),
     RssEntry(TitleText, Undefined, DateString(Now0), Undefined),
     RssEntry(Undefined, LinkBad, DateString(Now0), Undefined)}

\* ---- bounds of the fetcher ----
MaxFeedEntries == 2

\* a feed longer than the cap by one entry: stale entries, then a fresh
\* entry at the last place the cap admits, then a fresh entry behind it that
\* has another URL
StaleEntry == RssEntry(TitleText, LinkAws, DateString(EdgeDate - 1), Undefined)
LongFeed ==
    [i \in 1..(MaxEntriesPerFeed + 1) |->
        IF i < MaxEntriesPerFeed THEN StaleEntry
        ELSE IF i = MaxEntriesPerFeed
             THEN RssEntry(TitleText, LinkAws, DateString(Now0), Undefined)
             ELSE RssEntry(TitleText, Undefined, DateString(Now0), Undefined)]

\* what parseURL can settle with
ParseOutcomes ==
    {[kind |-> "rejects"], [kind |-> "feed", items |-> Undefined]}
    \cup {[kind |-> "feed", items |-> Arr(e)] : e \in SeqsUpTo(RssEntryPool, MaxFeedEntries)}
    \cup {[kind |-> "feed", items |-> Arr(LongFeed)]}

\* what a probe (fetch with HEAD or GET, redirects followed) can settle with:
\* it throws (network error, timeout), or a final status
ProbeThrows == [throws |-> TRUE]
ProbeStatus(n) == [throws |-> FALSE, status |-> n]
ProbeResults == {ProbeThrows, ProbeStatus(200), ProbeStatus(204), ProbeStatus(404),
                 ProbeStatus(405)}

\* ---- processRssItem ----
SlotNull == [state |-> "null"]

\* processRssItem up to its await: the date, the freshness check, the
\* canonical URL, the allowlist check; then validateUrl starts (it
\* canonicalizes again, checks the allowlist again) and sends the HEAD probe
StartProcessing(entry, src, cutoff, clock) ==
    LET rawLink == IF entry.link.t = "undefined" THEN src.url ELSE entry.link.url
        isoDate == OrElse(entry.isoDate, entry.pubDate)
        publishedAt == IF isoDate.t # "undefined" THEN ParseDate(isoDate) ELSE DateAt(clock)
        canonicalUrl == CanonicalizeUrl(rawLink)
    IN IF TooOld(publishedAt, cutoff) THEN SlotNull
       ELSE IF ~IsDomainAllowed(canonicalUrl) THEN SlotNull
       ELSE IF ~IsDomainAllowed(CanonicalizeUrl(canonicalUrl)) THEN SlotNull
       ELSE [state |-> "head", entry |-> entry, publishedAt |-> publishedAt,
             canonicalUrl |-> canonicalUrl, checkedAt |-> clock]

\* item.title?.trim() with no default behind it (a mutant)
TitleOrDefault_NoDefault(entry, src) ==
    IF entry.title.t = "undefined" THEN [t |-> "string", text |-> <<>>]
    ELSE entry.title

\* item.title?.trim() || `${source.name} update`
TitleOrDefault(entry, src) ==
    IF entry.title.t = "undefined" THEN [t |-> "string", text |-> <<"u", "p", "d">>]
    ELSE entry.title

\* validateUrl's verdict on the final status
IsValidStatus(status) == status >= 200 /\ status < 300

\* processRssItem after validateUrl settled with a response of that status:
\* an invalid status gives null; building the item calls
\* publishedAt.toISOString(), whose RangeError is caught by the per-item
\* try/catch of fetchRssFeed, which gives null as well
FinishProcessing(slot, src, status) ==
    IF ~IsValidStatus(status) THEN SlotNull
    ELSE IF ToISOString(slot.publishedAt).raised THEN SlotNull
    ELSE [state |-> "item",
          item |-> [title |-> TitleOrDefault(slot.entry, src).text,
                    source |-> src.name,
                    source_url |-> CanonicalizeUrl(slot.canonicalUrl),
                    published_at |-> ToISOString(slot.publishedAt).value,
                    domain |-> slot.canonicalUrl.hostname,
                    status_code |-> status,
                    checked_at |-> Iso(slot.checkedAt)]]

SlotSettled(slot) == slot.state \in {"null", "item"}

\* the filter at the end of fetchRssFeed
IsValidItem(slot) ==
    /\ slot.state = "item"
    /\ slot.item.status_code = 200
    /\ IsDomainAllowed(slot.item.source_url)

ValidItems(slots) ==
    LET kept == SelectSeq(slots, IsValidItem)
    IN [i \in 1..Len(kept) |-> kept[i].item]

(***************************************************************************)
(* fetchSource, step by step.                                              *)
(***************************************************************************)
FetchInit ==
    /\ fpc = "start"
    /\ now = Now0
    /\ theSource \in FetcherSources
    /\ lookbackHours \in LookbackChoices
    /\ enableUrlValidation \in BOOLEAN
    /\ parsedFeed = NotYet
    /\ fetchedAt = 0
    /\ cutoffTime = 0
    /\ feedItems = <<>>
    /\ probeLog = <<>>
    /\ fetchResult = NotYet

\* fetchSource is called: a source that is not RSS gives [] at once; for an
\* RSS source fetchRssFeed awaits rssParser.parseURL
FetchSourceCalled ==
    /\ fpc = "start"
    /\ IF theSource.type # "rss"
       THEN fpc' = "done" /\ fetchResult' = Returned(<<>>)
       ELSE fpc' = "parsing" /\ UNCHANGED fetchResult
    /\ UNCHANGED <<now, theSource, lookbackHours, parsedFeed, fetchedAt, cutoffTime,
                   feedItems, probeLog, enableUrlValidation,
                   notFetchVars>>

\* parseURL settles.  A rejection is caught by fetchRssFeed, which returns [].
\* Otherwise the cutoff is computed and every entry (of the first 50) is
\* processed up to its first await
ParseUrlSettles ==
    /\ fpc = "parsing"
    /\ \E outcome \in ParseOutcomes, dt \in {0, ClockTick} :
          /\ now' = now + dt
          /\ parsedFeed' = outcome
          /\ IF outcome.kind = "rejects"
             THEN /\ fpc' = "done"
                  /\ fetchResult' = Returned(<<>>)
                  /\ UNCHANGED <<fetchedAt, cutoffTime, feedItems, probeLog>>
             ELSE LET entries == Slice0(Items(outcome.items), MaxEntriesPerFeed)
                      cutoff == CutoffOf(now', lookbackHours)
                  IN /\ fetchedAt' = now'
                     /\ cutoffTime' = cutoff
                     /\ feedItems' = [i \in 1..Len(entries) |->
                                        StartProcessing(entries[i], theSource, cutoff, now')]
                     /\ probeLog' = [i \in 1..Len(entries) |-> <<>>]
                     /\ fpc' = "processing"
                     /\ UNCHANGED fetchResult
    /\ UNCHANGED <<theSource, lookbackHours, enableUrlValidation,
                   notFetchVars>>

\* the HEAD probe of one entry settles: a response decides the entry, a
\* failure makes validateUrl send the GET probe
HeadProbeSettles ==
    /\ fpc = "processing"
    /\ \E i \in 1..Len(feedItems), res \in ProbeResults :
          /\ feedItems[i].state = "head"
          /\ probeLog' = [probeLog EXCEPT ![i] = Append(@, [method |-> "HEAD", result |-> res])]
          /\ feedItems' = [feedItems EXCEPT ![i] =
                IF res.throws THEN [feedItems[i] EXCEPT !.state = "get"]
                ELSE FinishProcessing(feedItems[i], theSource, res.status)]
    /\ UNCHANGED <<fpc, now, theSource, lookbackHours, parsedFeed, fetchedAt, cutoffTime,
                   fetchResult, enableUrlValidation,
                   notFetchVars>>

\* the GET probe of one entry settles: a response decides the entry, a
\* failure makes validateUrl answer invalid (status 0)
GetProbeSettles ==
    /\ fpc = "processing"
    /\ \E i \in 1..Len(feedItems), res \in ProbeResults :
          /\ feedItems[i].state = "get"
          /\ probeLog' = [probeLog EXCEPT ![i] = Append(@, [method |-> "GET", result |-> res])]
          /\ feedItems' = [feedItems EXCEPT ![i] =
                IF res.throws THEN SlotNull
                ELSE FinishProcessing(feedItems[i], theSource, res.status)]
    /\ UNCHANGED <<fpc, now, theSource, lookbackHours, parsedFeed, fetchedAt, cutoffTime,
                   fetchResult, enableUrlValidation,
                   notFetchVars>>

\* Promise.all settled: fetchRssFeed filters the slots and fetchSource returns
FetchSourceReturns ==
    /\ fpc = "processing"
    /\ \A i \in 1..Len(feedItems) : SlotSettled(feedItems[i])
    /\ fetchResult' = Returned(ValidItems(feedItems))
    /\ fpc' = "done"
    /\ UNCHANGED <<now, theSource, lookbackHours, parsedFeed, fetchedAt, cutoffTime,
                   feedItems, probeLog, enableUrlValidation,
                   notFetchVars>>

FetchNext ==
    \/ FetchSourceCalled
    \/ ParseUrlSettles
    \/ HeadProbeSettles
    \/ GetProbeSettles
    \/ FetchSourceReturns

(***************************************************************************)
(* Claims about fetchSource.                                               *)
(***************************************************************************)
\* fetchRssFeed got a feed and processed its entries
FeedProcessed ==
    /\ fpc \in {"processing", "done"}
    /\ theSource.type = "rss"
    /\ parsedFeed.kind = "feed"

\* the entries of the parsed feed, slot by slot
FeedEntries == Slice0(Items(parsedFeed.items), MaxEntriesPerFeed)

\* the date string of an entry, if it has one
EntryDateString(entry) == OrElse(entry.isoDate, entry.pubDate)
HasParsedDate(entry) ==
    EntryDateString(entry).t = "string" /\ EntryDateString(entry).parses
HasUnparseableDate(entry) ==
    EntryDateString(entry).t = "string" /\ ~EntryDateString(entry).parses

\* the cutoff of the claim: the time the feed was fetched, less lookbackHours hours
RecencyCutoff == fetchedAt - lookbackHours * 3600000

\* the last probe of entry i was answered with status 200
ProbedOk(i) ==
    /\ Len(probeLog[i]) > 0
    /\ ~probeLog[i][Len(probeLog[i])].result.throws
    /\ probeLog[i][Len(probeLog[i])].result.status = 200

\* C9: every item of an RSS source that fetchSource builds and returns is
\* dated at or after the cutoff (fetch time less lookbackHours hours), and an
\* entry whose date parses to an instant before the cutoff gives no item.
C9_RecencyInvariant ==
    /\ FeedProcessed =>
          \A i \in 1..Len(feedItems) :
             /\ feedItems[i].state = "item" =>
                   feedItems[i].item.published_at.iso >= RecencyCutoff
             /\ (HasParsedDate(FeedEntries[i])
                   /\ EntryDateString(FeedEntries[i]).ms < RecencyCutoff)
                => feedItems[i].state = "null"
    /\ (fpc = "done" /\ ~fetchResult.raised) =>
          \A k \in 1..Len(fetchResult.value) :
             fetchResult.value[k].published_at.iso >= RecencyCutoff

\* fetchSource returned an item dated exactly at the cutoff, and dropped an
\* entry dated before it
C9_Witness ==
    /\ fpc = "done"
    /\ FeedProcessed
    /\ \E k \in 1..Len(fetchResult.value) :
          fetchResult.value[k].published_at.iso = RecencyCutoff
    /\ \E i \in 1..Len(feedItems) :
          /\ HasParsedDate(FeedEntries[i])
          /\ EntryDateString(FeedEntries[i]).ms < RecencyCutoff
          /\ feedItems[i].state = "null"

\* C10: an entry whose date string is present but does not parse, whose URL is
\* on the allowlist and was probed with status 200, is part of what
\* fetchSource returns, whatever lookbackHours is.
C10_UnparseableDatesKept ==
    (fpc = "done" /\ FeedProcessed) =>
       \A i \in 1..Len(feedItems) :
          (HasUnparseableDate(FeedEntries[i]) /\ ProbedOk(i))
          => /\ feedItems[i].state = "item"
             /\ \E k \in 1..Len(fetchResult.value) :
                   fetchResult.value[k] = feedItems[i].item

\* the result of the last probe sent for entry i
FinalProbe(i) == probeLog[i][Len(probeLog[i])].result

\* the item built for entry i is part of what fetchSource returned
InFetchResult(i) ==
    /\ feedItems[i].state = "item"
    /\ \E k \in 1..Len(fetchResult.value) : fetchResult.value[k] = feedItems[i].item

\* C12 (as claimed): a candidate that reached the validation substage (its
\* date did not stand in the way) is part of the fetch result if and only if
\* the final status of its probe is in 200..299.
C12_ValidationVerdict ==
    (fpc = "done" /\ FeedProcessed) =>
       \A i \in 1..Len(feedItems) :
          (Len(probeLog[i]) > 0 /\ ~HasUnparseableDate(FeedEntries[i]))
          => (InFetchResult(i)
              <=> (~FinalProbe(i).throws /\ FinalProbe(i).status \in 200..299))

\* the source_url of the item built for a link: the link as processRssItem
\* canonicalizes it, canonicalized once more by validateUrl
StoredUrlOf(link) == CanonicalizeUrl(CanonicalizeUrl(link))

\* the entries rss-parser delivered, all of them
RawEntries == Items(parsedFeed.items)

\* the link processRssItem would work on for the j-th delivered entry
RawLinkOrSourceUrl(j) ==
    IF RawEntries[j].link.t = "undefined" THEN theSource.url
    ELSE RawEntries[j].link.url

\* C22: fetchSource considers the first 50 entries of a feed only, in feed
\* order: no more than 50 entries are processed, an entry behind the 50th is
\* never probed and gives no item, and the result holds at most 50 items.
C22_EntryCap ==
    FeedProcessed =>
       /\ Len(feedItems) = IF Len(RawEntries) > 50 THEN 50 ELSE Len(RawEntries)
       /\ Len(probeLog) <= 50
       /\ fpc = "done" =>
             /\ Len(fetchResult.value) <= 50
             /\ \A k \in 1..Len(fetchResult.value) :
                   \E j \in k..50 :
                      /\ j <= Len(RawEntries)
                      /\ fetchResult.value[k].source_url
                            = StoredUrlOf(RawLinkOrSourceUrl(j))

\* a feed of 51 entries was fetched; the 50th gave an item, the 51st, which
\* is as fresh, gave none
C22_Witness ==
    /\ fpc = "done"
    /\ FeedProcessed
    /\ Len(RawEntries) = 51
    /\ Len(fetchResult.value) = 1
    /\ fetchResult.value[1].source_url = StoredUrlOf(RawLinkOrSourceUrl(50))
    /\ fetchResult.value[1].source_url # StoredUrlOf(RawLinkOrSourceUrl(51))

\* the link processRssItem works on for entry i: the entry's, else the source's
LinkOrSourceUrl(i) ==
    IF FeedEntries[i].link.t = "undefined" THEN theSource.url
    ELSE FeedEntries[i].link.url

LacksTitleOrLink(i) ==
    FeedEntries[i].title.t = "undefined" \/ FeedEntries[i].link.t = "undefined"

C29_FetchOutput ==
    fpc = "done" =>
        /\ ~fetchResult.raised
        /\ theSource.type # "rss" =>
              /\ fetchResult.value = <<>>
              /\ parsedFeed = NotYet
              /\ probeLog = <<>>
        /\ \A k \in 1..Len(fetchResult.value) :
              /\ IsDomainAllowed(fetchResult.value[k].source_url)
              /\ fetchResult.value[k].status_code \in 200..299
              /\ fetchResult.value[k].domain = fetchResult.value[k].source_url.hostname
              /\ \E i \in 1..Len(feedItems) :
                    /\ feedItems[i].state = "item"
                    /\ feedItems[i].item = fetchResult.value[k]
                    /\ ~FinalProbe(i).throws
                    /\ FinalProbe(i).status = fetchResult.value[k].status_code
                    /\ fetchResult.value[k].source_url
                          = CanonicalizeUrl(LinkOrSourceUrl(i))

\* the probe did not end with a status in 200..299
ProbeFailed(res) == res.throws \/ ~(res.status \in 200..299)

\* C26 (as claimed): validateUrl sends the HEAD probe first; a GET probe
\* follows whenever, and only when, the HEAD probe has failed, and no GET
\* follows a HEAD that succeeded.
C26_ProbeFallbackOrder ==
    (fpc = "done" /\ FeedProcessed) =>
       \A i \in 1..Len(probeLog) :
          probeLog[i] # <<>> =>
             /\ probeLog[i][1].method = "HEAD"
             /\ Len(probeLog[i]) <= 2
             /\ Len(probeLog[i]) = 2 => probeLog[i][2].method = "GET"
             /\ Len(probeLog[i]) = 2 <=> ProbeFailed(probeLog[i][1].result)

\* entry i has a link that parses and a date at or after the cutoff
FreshWithLink(i) ==
    /\ FeedEntries[i].link.t = "string"
    /\ FeedEntries[i].link.url.ok
    /\ HasParsedDate(FeedEntries[i])
    /\ EntryDateString(FeedEntries[i]).ms >= RecencyCutoff

\* C19 (as claimed): with URL validation disabled no HEAD or GET probe is
\* issued and every URL passes the allowlist filter, so that fetchSource
\* keeps the fresh entries whatever their host.
C19_AllowlistToggle ==
    (fpc = "done" /\ FeedProcessed /\ ~enableUrlValidation) =>
       \A i \in 1..Len(feedItems) :
          /\ probeLog[i] = <<>>
          /\ FreshWithLink(i) =>
                \E k \in 1..Len(fetchResult.value) :
                   fetchResult.value[k].source_url
                      = CanonicalizeUrl(FeedEntries[i].link.url)

(***************************************************************************)
(* The probes of URL validation: how many are in flight.  fetchRssFeed     *)
(* maps processRssItem over the entries inside one Promise.all, each       *)
(* awaiting validateUrl; validateUrls validates a list batch by batch.     *)
(***************************************************************************)
CONCURRENCY == 5

\* ---- bounds of the validation ----
MaxCandidates == 7

Min(a, b) == IF a < b THEN a ELSE b

\* batch = urls.slice(i, i + CONCURRENCY)
BatchOf(i, n) == (i + 1)..Min(i + CONCURRENCY, n)

\* what validateUrls starts when the loop is at i: the probes of the batch
StartBatch(states, i, n) ==
    [k \in 1..n |-> IF k \in BatchOf(i, n) THEN "head" ELSE states[k]]

\* what fetchRssFeed starts: processRssItem of every entry (of the first 50)
\* runs up to its await, so every candidate's HEAD probe is sent
StartAll(n) == [k \in 1..Min(n, MaxEntriesPerFeed) |-> "head"]

AllSettled(states, S) == \A k \in S : states[k] = "settled"

ValidationIdle ==
    /\ vpc = "idle"
    /\ validator = "none"
    /\ candidates = 0
    /\ probeState = <<>>
    /\ batchStart = 0

ValidationInit ==
    /\ vpc = "start"
    /\ validator \in {"fetchRssFeed", "validateUrls"}
    /\ candidates \in 0..MaxCandidates
    /\ probeState = [k \in 1..candidates |-> "waiting"]
    /\ batchStart = 0

\* fetchRssFeed: Promise.all(items.map(processRssItem))
MapStartsProbes ==
    /\ vpc = "start"
    /\ validator = "fetchRssFeed"
    /\ probeState' = StartAll(candidates)
    /\ vpc' = "awaiting"
    /\ UNCHANGED <<validator, candidates, batchStart, notValidationVars>>

\* validateUrls: the loop test holds, the next batch is sliced and its
\* probes start
LoopStartsBatch ==
    /\ vpc \in {"start", "loop"}
    /\ validator = "validateUrls"
    /\ batchStart < candidates
    /\ probeState' = StartBatch(probeState, batchStart, candidates)
    /\ vpc' = "awaiting"
    /\ UNCHANGED <<validator, candidates, batchStart, notValidationVars>>

\* validateUrl: the HEAD probe of one candidate settles; a failure sends the GET
ValidateHeadSettles ==
    /\ vpc = "awaiting"
    /\ \E k \in 1..Len(probeState), failed \in BOOLEAN :
          /\ probeState[k] = "head"
          /\ probeState' = [probeState EXCEPT ![k] = IF failed THEN "get" ELSE "settled"]
    /\ UNCHANGED <<vpc, validator, candidates, batchStart, notValidationVars>>

\* validateUrl: the GET probe of one candidate settles
ValidateGetSettles ==
    /\ vpc = "awaiting"
    /\ \E k \in 1..Len(probeState) :
          /\ probeState[k] = "get"
          /\ probeState' = [probeState EXCEPT ![k] = "settled"]
    /\ UNCHANGED <<vpc, validator, candidates, batchStart, notValidationVars>>

\* validateUrls: Promise.all of the batch settled, i += CONCURRENCY
BatchSettles ==
    /\ vpc = "awaiting"
    /\ validator = "validateUrls"
    /\ AllSettled(probeState, BatchOf(batchStart, candidates))
    /\ batchStart' = batchStart + CONCURRENCY
    /\ vpc' = "loop"
    /\ UNCHANGED <<validator, candidates, probeState, notValidationVars>>

\* the validation is over: Promise.all of fetchRssFeed settled, or the loop
\* test of validateUrls fails
ValidationReturns ==
    /\ \/ /\ validator = "fetchRssFeed"
          /\ vpc = "awaiting"
          /\ AllSettled(probeState, DOMAIN probeState)
       \/ /\ validator = "validateUrls"
          /\ vpc \in {"start", "loop"}
          /\ batchStart >= candidates
    /\ vpc' = "done"
    /\ UNCHANGED <<validator, candidates, probeState, batchStart, notValidationVars>>

ValidationNext ==
    \/ MapStartsProbes
    \/ LoopStartsBatch
    \/ ValidateHeadSettles
    \/ ValidateGetSettles
    \/ BatchSettles
    \/ ValidationReturns

\* the probes in flight
InFlight == {k \in DOMAIN probeState : probeState[k] \in {"head", "get"}}

\* the batch a candidate belongs to, counting from 0
BatchNumber(k) == (k - 1) \div CONCURRENCY

\* C13 (as claimed): at every moment at most 5 probes are in flight, and a
\* probe of one batch has started only if every probe of the batches before
\* it has settled.
C13_BoundedConcurrency ==
    /\ Cardinality(InFlight) <= CONCURRENCY
    /\ \A j, k \in DOMAIN probeState :
          (BatchNumber(j) < BatchNumber(k) /\ probeState[k] # "waiting")
          => probeState[j] = "settled"

ScanIdle ==
    /\ spc = "idle"
    /\ topics = <<>>
    /\ topicIdx = 0
    /\ sourceIdx = 0
    /\ allFeeds = <<>>
    /\ categorizedFeeds = <<>>
    /\ fetchLog = <<>>
    /\ build = "none"
    /\ generatorReport = NotYet
    /\ scanResult = NotYet
    /\ pendingFetch = NoFetch
    /\ handedOver = NotYet

FetchIdle ==
    /\ fpc = "idle"
    /\ now = 0
    /\ theSource = NotYet
    /\ lookbackHours = 0
    /\ enableUrlValidation = FALSE
    /\ parsedFeed = NotYet
    /\ fetchedAt = 0
    /\ cutoffTime = 0
    /\ feedItems = <<>>
    /\ probeLog = <<>>
    /\ fetchResult = NotYet

(***************************************************************************)
(* Claims about the research pipeline (SpecResearch).                      *)
(***************************************************************************)
ResearchScanReturned == rpc = "done" /\ scanOut.status = "returned"

CollaboratorOmitted(k) ==
    \/ searchOutcome.response.kind # "json_object"
    \/ k \notin DOMAIN searchOutcome.response.parsed.fields

\* C1: whatever the research collaborator answers (all sections, some
\* sections, an empty object), performScan returns a ScanResult that has
\* every taxonomy section key, each holding a sequence, and a section the
\* collaborator omitted holds the empty sequence.
C1_Completeness ==
    rpc = "done" =>
        /\ scanOut.status = "returned"
        /\ \A k \in SectionKeys :
              /\ k \in DOMAIN scanOut.scanResult.fields
              /\ scanOut.scanResult.fields[k].t = "array"
              /\ CollaboratorOmitted(k) => scanOut.scanResult.fields[k] = EmptyArr

\* the collaborator answered with some sections only, and the scan returned
C1_Witness ==
    /\ ResearchScanReturned
    /\ searchOutcome.response.kind = "json_object"
    /\ DOMAIN searchOutcome.response.parsed.fields = {"top_signals", "ai_trends"}
    /\ Len(scanOut.scanResult.fields["top_signals"].items) = MaxSectionLen
    /\ scanOut.scanResult.fields["security_alerts"] = EmptyArr

\* C3: when searchStructured fails (API error, or an answer that is not valid
\* JSON), performResearch does not raise: it returns the query and a report
\* whose every section is empty, and performScan completes with that report.
C3_CollaboratorFailure ==
    (rpc \in {"researched", "done"} /\ searchOutcome.outcome.raised) =>
        /\ ~researchResult.raised
        /\ researchResult.value.query = query
        /\ \A k \in SectionKeys : Get(researchResult.value.report, k) = EmptyArr
        /\ rpc = "done" =>
              /\ scanOut.status = "returned"
              /\ \A k \in SectionKeys : scanOut.scanResult.fields[k] = EmptyArr

\* the collaborator answered with text that is not JSON, and the scan returned
C3_Witness ==
    /\ ResearchScanReturned
    /\ searchOutcome.response.kind = "not_json"
    /\ researchResult.value.query = TheQuery

SectionLength(k) == Len(Items(scanOut.scanResult.fields[k]))

\* C6 (as claimed): every section of a returned ScanResult holds at most
\* maxItemsPerCategory (5) items, however many the collaborator returned.
C6_PerCategoryCap ==
    ResearchScanReturned =>
        \A k \in SelectionKeys : SectionLength(k) <= MaxItemsPerCategory

ClusterCapPercent == 40

SelectedTotal ==
    SectionLength("top_signals") + SectionLength("trend_watchlist")
    + SectionLength("security_alerts") + SectionLength("aws_platform_changes")
    + SectionLength("ai_trends") + SectionLength("corporate_competitors")
    + SectionLength("developer_experience")

\* C7 (as claimed): when at least one item is selected, the items of the
\* health-related cluster (the AI section) are at most 40% of all the items
\* selected across the sections.
C7_ClusterCap ==
    (ResearchScanReturned /\ SelectedTotal > 0) =>
        100 * SectionLength("ai_trends") <= ClusterCapPercent * SelectedTotal

(***************************************************************************)
(* Claims about the RSS scan (SpecScan).                                   *)
(***************************************************************************)
\* the sources of the configuration in the order the loops visit them
RECURSIVE SourcesInOrder(_)
SourcesInOrder(cfg) ==
    IF cfg = <<>> THEN <<>>
    ELSE SourcesInOrder(SubSeq(cfg, 1, Len(cfg) - 1))
         \o [i \in 1..Len(cfg[Len(cfg)].sources) |-> cfg[Len(cfg)].sources[i].name]

\* the items a logged fetch contributed: those of its feed, none if it failed
ContributionOf(entry) ==
    IF entry.outcome.kind = "entries"
    THEN [i \in 1..Len(entry.outcome.entries) |->
            [title |-> entry.outcome.entries[i].title,
             source |-> entry.source,
             source_url |-> entry.outcome.entries[i].source_url,
             published_at |-> entry.outcome.entries[i].published_at]]
    ELSE <<>>

RECURSIVE Collected(_)
Collected(log) ==
    IF log = <<>> THEN <<>>
    ELSE Collected(SubSeq(log, 1, Len(log) - 1)) \o ContributionOf(log[Len(log)])

FetchingOver == spc \in {"fetched", "done"}

\* C2: if the fetch of one source fails (network error, parse error, or a
\* fetcher that rejects), that source contributes no item, every source of
\* the configuration is still fetched in turn, and performScan returns a
\* ScanResult whose raw_feed holds the items of all the other sources.
C2_SourceFailureIsolation ==
    FetchingOver =>
        /\ [i \in 1..Len(fetchLog) |-> fetchLog[i].source] = SourcesInOrder(topics)
        /\ allFeeds = Collected(fetchLog)
        /\ (spc = "done" /\ build \in {"placeholder", "rules"}) =>
              /\ scanResult.status = "returned"
              /\ scanResult.result.fields["raw_feed"] = Arr(allFeeds)

\* the first of two sources failed with a network error, the second
\* delivered items, and the scan returned them
C2_Witness ==
    /\ spc = "done"
    /\ build = "placeholder"
    /\ Len(fetchLog) = 2
    /\ fetchLog[1].outcome.kind = "network_error"
    /\ fetchLog[2].outcome.kind = "entries"
    /\ Len(scanResult.result.fields["raw_feed"].items) = MaxFeedLen

\* the fetched fields of the items handed over
PlainItems(items) ==
    [i \in 1..Len(items) |->
        [title |-> items[i].title, source |-> items[i].source,
         source_url |-> items[i].source_url, published_at |-> items[i].published_at]]

\* classification or report generation has started
HandoverDone == build # "none"

\* C14: classification / report generation never starts while a fetch is
\* pending; when it starts, the fetch of every configured source has settled,
\* and it is given the items of every source that succeeded.
C14_MergeBarrier ==
    /\ pendingFetch.pending => ~HandoverDone
    /\ HandoverDone =>
          /\ ~pendingFetch.pending
          /\ [i \in 1..Len(fetchLog) |-> fetchLog[i].source] = SourcesInOrder(topics)
          /\ PlainItems(handedOver) = Collected(fetchLog)

\* two sources, the first one's fetch rejected, and report generation was
\* given the items of the second
C14_Witness ==
    /\ build = "generator"
    /\ Len(fetchLog) = 2
    /\ fetchLog[1].outcome.kind = "fetcher_rejects"
    /\ fetchLog[2].outcome.kind = "entries"
    /\ Len(handedOver) = MaxFeedLen

\* per source of the configuration, in the order of the loops: its topic
RECURSIVE TopicsInOrder(_)
TopicsInOrder(cfg) ==
    IF cfg = <<>> THEN <<>>
    ELSE TopicsInOrder(SubSeq(cfg, 1, Len(cfg) - 1))
         \o [i \in 1..Len(cfg[Len(cfg)].sources) |-> cfg[Len(cfg)]]

\* the items of the k-th fetch, each with the name, category and priority of
\* the topic the source is configured under
AnnotatedContribution(log, cfg, k) ==
    LET items == ContributionOf(log[k])
        topic == TopicsInOrder(cfg)[k]
    IN [i \in 1..Len(items) |->
          [item |-> items[i], topic |-> topic.name, category |-> topic.category,
           priority |-> topic.priority]]

RECURSIVE AnnotatedUpTo(_, _, _)
AnnotatedUpTo(log, cfg, k) ==
    IF k = 0 THEN <<>>
    ELSE AnnotatedUpTo(log, cfg, k - 1) \o AnnotatedContribution(log, cfg, k)

\* what the generator was given, item by item
HandedToGenerator ==
    [i \in 1..Len(handedOver) |->
        [item |-> PlainItems(handedOver)[i], topic |-> handedOver[i].topic,
         category |-> handedOver[i].category, priority |-> handedOver[i].priority]]

\* the generator answered with a raw_feed that holds items
GeneratorGaveRawFeed ==
    /\ "raw_feed" \in DOMAIN generatorReport.report.fields
    /\ generatorReport.report.fields["raw_feed"].t = "array"
    /\ Len(generatorReport.report.fields["raw_feed"].items) > 0

\* C20: the raw_feed of the ScanResult is the generator's raw_feed when that
\* holds items, and otherwise the list of all fetched items in collection
\* order; the generator is given each fetched item exactly once, with the
\* name, category and priority of the topic it was fetched under.
C20_RawFeedFallback ==
    (spc = "done" /\ build = "generator") =>
        /\ HandedToGenerator = AnnotatedUpTo(fetchLog, topics, Len(fetchLog))
        /\ scanResult.status = "returned" =>
              scanResult.result.fields["raw_feed"] =
                 IF GeneratorGaveRawFeed
                 THEN generatorReport.report.fields["raw_feed"]
                 ELSE Arr(Collected(fetchLog))

\* the generator left raw_feed out, two sources under two topics had given
\* items, and raw_feed holds the items of both
C20_Witness ==
    /\ spc = "done"
    /\ build = "generator"
    /\ scanResult.status = "returned"
    /\ ~GeneratorGaveRawFeed
    /\ Len(topics) = 2
    /\ topics[1].name # topics[2].name
    /\ \A k \in 1..Len(fetchLog) : Len(ContributionOf(fetchLog[k])) > 0
    /\ Len(scanResult.result.fields["raw_feed"].items) > Len(ContributionOf(fetchLog[1]))
    /\ Len(handedOver) = Len(scanResult.result.fields["raw_feed"].items)

\* the sections of the rule-based scan, and how many handed-over items have
\* a category
SectionOut(k) == scanResult.result.fields[k].items
HandedWithCategory(c) ==
    Cardinality({i \in 1..Len(handedOver) : handedOver[i].category = c})
AiTrendsOfKind(kind) ==
    Cardinality({i \in 1..Len(SectionOut("ai_trends")) :
                    SectionOut("ai_trends")[i].category = kind})
NamedCategories == {"security", "aws_platform", "ai_healthcare", "ai_platform",
                    "corporate", "developer_experience"}

\* C27: every fetched item is counted in exactly one of the sections below
\* the headlines: an item of a named category in the section of that
\* category, every other item in the one trend_watchlist entry of its
\* category.
C27_CategoryAssignment ==
    (spc = "done" /\ build = "rules") =>
        /\ Len(SectionOut("security_alerts")) = HandedWithCategory("security")
        /\ Len(SectionOut("aws_platform_changes")) = HandedWithCategory("aws_platform")
        /\ Len(SectionOut("ai_trends")) =
              HandedWithCategory("ai_healthcare") + HandedWithCategory("ai_platform")
        /\ AiTrendsOfKind("clinical") = HandedWithCategory("ai_healthcare")
        /\ AiTrendsOfKind("platform") = HandedWithCategory("ai_platform")
        /\ Len(SectionOut("corporate_hims_hers")) = HandedWithCategory("corporate")
        /\ Len(SectionOut("developer_experience"))
              = HandedWithCategory("developer_experience")
        /\ \A g \in 1..Len(SectionOut("trend_watchlist")) :
              /\ SectionOut("trend_watchlist")[g].topic \notin NamedCategories
              /\ SectionOut("trend_watchlist")[g].count
                    = HandedWithCategory(SectionOut("trend_watchlist")[g].topic)
              /\ \A h \in 1..Len(SectionOut("trend_watchlist")) :
                    SectionOut("trend_watchlist")[h].topic
                       = SectionOut("trend_watchlist")[g].topic => h = g
        /\ \A i \in 1..Len(handedOver) :
              handedOver[i].category \notin NamedCategories =>
                 \E g \in 1..Len(SectionOut("trend_watchlist")) :
                    SectionOut("trend_watchlist")[g].topic = handedOver[i].category

\* items of a named category and of another category were fetched: the
\* former are in their section, the latter counted in one watchlist entry
C27_Witness ==
    /\ spc = "done"
    /\ build = "rules"
    /\ Len(SectionOut("security_alerts")) = 2
    /\ Len(SectionOut("trend_watchlist")) = 1
    /\ SectionOut("trend_watchlist")[1].topic = "releases"
    /\ SectionOut("trend_watchlist")[1].count = 2
    /\ Len(handedOver) = 4

\* the headline section of the rule-based scan
TopSignalsOut == scanResult.result.fields["top_signals"].items

\* every candidate has the same priority, so that none outscores another
SamePriorityThroughout ==
    \A i, j \in 1..Len(handedOver) : handedOver[i].priority = handedOver[j].priority

\* C25 (as claimed): top_signals is ordered by severity rank, then by score
\* descending, then by recency descending, and holds at most 5 items; so of
\* two items of one severity and one score the more recent one comes first.
C25_SelectionOrder ==
    (spc = "done" /\ build = "rules") =>
        /\ Len(TopSignalsOut) <= 5
        /\ \A i, j \in 1..Len(TopSignalsOut) :
              i < j =>
                 /\ SeverityRank(TopSignalsOut[i].severity)
                       <= SeverityRank(TopSignalsOut[j].severity)
                 /\ (TopSignalsOut[i].severity = TopSignalsOut[j].severity
                       /\ SamePriorityThroughout)
                    => TopSignalsOut[i].published_at.iso >= TopSignalsOut[j].published_at.iso

\* C4 (as claimed): in the merged candidate set handed to classification or
\* report generation, and exposed as raw_feed, no two items have the same
\* canonical URL.
C4_DedupUniqueness ==
    FetchingOver =>
        \A i, j \in 1..Len(categorizedFeeds) :
            i # j => CanonicalizeUrl(categorizedFeeds[i].source_url)
                     # CanonicalizeUrl(categorizedFeeds[j].source_url)

\* the collected item that should survive among those sharing item i's
\* canonical URL: the earliest published, the first seen among equals
IsGroupWinner(items, i) ==
    \A j \in 1..Len(items) :
        (j # i /\ CanonicalizeUrl(items[j].source_url) = CanonicalizeUrl(items[i].source_url))
        => \/ items[i].published_at.iso < items[j].published_at.iso
           \/ items[i].published_at.iso = items[j].published_at.iso /\ i < j

\* C5 (as claimed): of the collected items sharing a canonical URL the merged
\* set keeps exactly one, the one published earliest, the first seen when
\* the timestamps are equal.
C5_DedupTieBreak ==
    FetchingOver =>
        LET collected == Collected(fetchLog)
            winners == SelectSeq([i \in 1..Len(collected) |-> [at |-> i, item |-> collected[i]]],
                                 LAMBDA e : IsGroupWinner(collected, e.at))
        IN allFeeds = [i \in 1..Len(winners) |-> winners[i].item]

AwsDomainCap == 2

\* C8 (as claimed): top_signals never holds more than 2 items of the
\* aws.amazon.com domain.
C8_HeadlineDomainCap ==
    (spc = "done" /\ build = "rules") =>
        Cardinality({i \in 1..Len(scanResult.result.fields["top_signals"].items) :
                        scanResult.result.fields["top_signals"].items[i].source_url.hostname
                        = HostAws}) <= AwsDomainCap

(***************************************************************************)
(* The Lambda handler: lambdaHandler of command/lambda/daily-scan.ts, with *)
(* the ConfigLoader singleton, the PerplexityClient constructor, the SES   *)
(* email sender and the S3 report storage it calls.  One warm container    *)
(* serves the invocations one after the other; what lives at module scope  *)
(* (the ConfigLoader and its cache) lives across them.                     *)
(***************************************************************************)
\* ---- bounds of the handler ----
MaxInvocations == 2

\* scan_config.lookback_hours of config/sources.yaml
DefaultLookback == 24

Num(n) == [t |-> "number", n |-> n]
NumTruthy(v) == v.t = "number" /\ v.n # 0
\* a || b on optional numbers
OrNum(a, b) == IF NumTruthy(a) THEN a ELSE b

\* DailyScanEvent: lookback_hours?: number; detail?: { lookback_hours?: number }
DetailWith(v) == [t |-> "object", lookback_hours |-> v]
EventWith(root, detail) == [lookback_hours |-> root, detail |-> detail]
Events == { EventWith(r, d) : r \in {Undefined, Num(0), Num(168)},
                              d \in {Undefined, DetailWith(Undefined), DetailWith(Num(720))} }

\* event.detail?.lookback_hours
DetailLookback(ev) ==
    IF ev.detail.t = "object" THEN ev.detail.lookback_hours ELSE Undefined

\* const lookbackHoursOverride = event.lookback_hours || event.detail?.lookback_hours
LookbackHoursOverride(ev) == OrNum(ev.lookback_hours, DetailLookback(ev))

\* the configuration object, as far as the handler touches it
Config(n) == [t |-> "config", lookback_hours |-> n]

\* ConfigLoader.loadConfig: the cached object when there is one, else the file
\* read and parsed (and cached), else `Failed to load configuration`
LoadConfig(cached, file) ==
    IF cached.t = "config" THEN Returned(cached)
    ELSE IF file = "readable" THEN Returned(Config(DefaultLookback))
    ELSE Raised

\* if (lookbackHoursOverride) config.scan_config.lookback_hours = lookbackHoursOverride
\* config is the object the loader caches, so the assignment is to the cache
ApplyOverride(config, override) ==
    IF NumTruthy(override) THEN Config(override.n) ELSE config

\* the latest-report pointer put first (a mutant)
ReportKeys_IndexFirst == <<"index.html", "data.json", "report.html">>

\* the objects saveReport puts, in the order of its awaits
ReportKeys == <<"data.json", "report.html", "index.html">>
PromptsKey == "prompts.json"

NoRun == [no |-> 0, event |-> Undefined, scanStarted |-> FALSE, lookbackUsed |-> 0, report |-> "none",
          emailed |-> FALSE, attempted |-> <<>>, uploads |-> <<>>, outcome |-> "none", failedAt |-> "none"]

StartRun(no, ev) == [NoRun EXCEPT !.no = no, !.event = ev, !.outcome = "running"]
Fails(r, at) == [r EXCEPT !.outcome = "error", !.failedAt = at]
Completes(r) == [r EXCEPT !.outcome = "completed"]

HandlerIdle ==
    /\ hpc = "idle"
    /\ invocation = 0
    /\ event = Undefined
    /\ cachedConfig = Undefined
    /\ configFile = "readable"
    /\ apiKey = TRUE
    /\ run = NoRun
    /\ runLog = <<>>

\* a cold container: nothing cached; the deployment has a readable or a
\* broken sources.yaml, and PERPLEXITY_API_KEY set or not
HandlerInit ==
    /\ hpc = "ready"
    /\ invocation = 0
    /\ event = Undefined
    /\ cachedConfig = Undefined
    /\ configFile \in {"readable", "broken"}
    /\ apiKey \in BOOLEAN
    /\ run = NoRun
    /\ runLog = <<>>

\* lambdaHandler up to its first await: the override is read from the event,
\* the configuration loaded, the override written into it, the client and
\* the services constructed, performScan called
LambdaHandlerInvoked ==
    /\ hpc = "ready"
    /\ invocation < MaxInvocations
    /\ \E ev \in Events :
          LET override == LookbackHoursOverride(ev)
              loaded == LoadConfig(cachedConfig, configFile)
              config == ApplyOverride(loaded.value, override)
              r == StartRun(invocation + 1, ev)
          IN  /\ event' = ev
              /\ invocation' = invocation + 1
              /\ IF loaded.raised
                 THEN /\ cachedConfig' = cachedConfig
                      /\ run' = Fails(r, "loadConfig")
                      /\ hpc' = "settling"
                 ELSE /\ cachedConfig' = config
                      /\ IF ~apiKey
                         THEN /\ run' = Fails(r, "PerplexityClient")
                              /\ hpc' = "settling"
                         ELSE /\ run' = [r EXCEPT !.scanStarted = TRUE,
                                                  !.lookbackUsed = config.lookback_hours]
                              /\ hpc' = "scanning"
    /\ UNCHANGED <<configFile, apiKey, runLog, notHandlerVars>>

\* await scanService.performScan(): it resolves whether or not the research
\* collaborator failed, with a report whose sections may all be empty
PerformScanResolves ==
    /\ hpc = "scanning"
    /\ \E collaboratorOk \in BOOLEAN :
          run' = [run EXCEPT !.report = IF collaboratorOk THEN "filled" ELSE "empty"]
    /\ hpc' = "emailing"
    /\ UNCHANGED <<invocation, event, cachedConfig, configFile, apiKey, runLog,
                   notHandlerVars>>

\* await emailSender.sendEmail(...): resolves, or logs and rethrows
SendEmailSettles ==
    /\ hpc = "emailing"
    /\ \E ok \in BOOLEAN :
          IF ok THEN /\ run' = [run EXCEPT !.emailed = TRUE]
                     /\ hpc' = "saving"
                ELSE /\ run' = Fails(run, "sendEmail")
                     /\ hpc' = "settling"
    /\ UNCHANGED <<invocation, event, cachedConfig, configFile, apiKey, runLog,
                   notHandlerVars>>

\* one await this.uploadFile(...) of saveReport: the next key is put, or the
\* put rejects and saveReport logs and rethrows
UploadSettles ==
    /\ hpc = "saving"
    /\ \E ok \in BOOLEAN :
          LET key == ReportKeys[Len(run.uploads) + 1]
              tried == [run EXCEPT !.attempted = Append(@, key)]
          IN IF ok THEN /\ run' = [tried EXCEPT !.uploads = Append(@, key)]
                        /\ hpc' = IF Len(run.uploads) + 1 = Len(ReportKeys)
                                  THEN "savingPrompts" ELSE "saving"
                   ELSE /\ run' = Fails(tried, "saveReport")
                        /\ hpc' = "settling"
    /\ UNCHANGED <<invocation, event, cachedConfig, configFile, apiKey, runLog,
                   notHandlerVars>>

\* await reportStorage.savePrompts(...): the put succeeds, or savePrompts
\* logs and swallows the error; the handler's try block ends
SavePromptsSettles ==
    /\ hpc = "savingPrompts"
    /\ \E ok \in BOOLEAN :
          LET tried == [run EXCEPT !.attempted = Append(@, PromptsKey)]
          IN run' = Completes(IF ok THEN [tried EXCEPT !.uploads = Append(@, PromptsKey)]
                                    ELSE tried)
    /\ hpc' = "settling"
    /\ UNCHANGED <<invocation, event, cachedConfig, configFile, apiKey, runLog,
                   notHandlerVars>>

\* the promise of lambdaHandler settles (resolved, or rejected by `throw
\* error` of its catch); the container is ready for the next invocation
LambdaHandlerSettles ==
    /\ hpc = "settling"
    /\ runLog' = Append(runLog, run)
    /\ hpc' = "ready"
    /\ UNCHANGED <<invocation, event, cachedConfig, configFile, apiKey, run,
                   notHandlerVars>>

HandlerNext ==
    \/ LambdaHandlerInvoked
    \/ PerformScanResolves
    \/ SendEmailSettles
    \/ UploadSettles
    \/ SavePromptsSettles
    \/ LambdaHandlerSettles

(***************************************************************************)
(* Claims about the handler.                                               *)
(***************************************************************************)
\* the invocations whose scan has started: the ended ones and the current one
StartedRuns == { r \in {runLog[i] : i \in 1..Len(runLog)} \cup {run} : r.scanStarted }

\* the override an event carries, root level first, then detail; 0 when none
CarriedOverride(ev) ==
    IF ev.lookback_hours.t = "number" /\ ev.lookback_hours.n > 0
    THEN ev.lookback_hours.n
    ELSE IF ev.detail.t = "object" /\ ev.detail.lookback_hours.t = "number"
            /\ ev.detail.lookback_hours.n > 0
         THEN ev.detail.lookback_hours.n
         ELSE 0

\* C15 (as claimed): an invocation whose event carries a lookback_hours
\* override scans with that value, and an invocation whose event carries none
\* scans with the default of sources.yaml, whatever the earlier invocations
\* of the container carried.
C15_LookbackOverride ==
    \A r \in StartedRuns :
        r.lookbackUsed = IF CarriedOverride(r.event) > 0
                         THEN CarriedOverride(r.event)
                         ELSE DefaultLookback

\* C16 (as claimed): the handler ends with an error only when loading the
\* configuration failed; after any other failure it completes, with a report
\* produced.
C16_OnlyConfigFailuresTerminal ==
    \A i \in 1..Len(runLog) :
        IF runLog[i].failedAt = "loadConfig"
        THEN runLog[i].outcome = "error"
        ELSE runLog[i].outcome = "completed" /\ runLog[i].report # "none"

\* every invocation: the ended ones and the one in progress
AllRuns == {runLog[i] : i \in 1..Len(runLog)} \cup {run}

Stored(r, key) == \E j \in 1..Len(r.uploads) : r.uploads[j] = key

\* C30: index.html is put only after data.json and report.html were stored;
\* when a put of saveReport fails, saveReport raises and no later put is
\* attempted; saveReport is attempted only after the email was sent.
C30_ArchiveWriteOrder ==
    \A r \in AllRuns :
        /\ \A i \in 1..Len(r.attempted) :
              /\ r.attempted[i] = "index.html" =>
                    /\ \E j \in 1..(i - 1) : r.attempted[j] = "data.json"
                    /\ \E j \in 1..(i - 1) : r.attempted[j] = "report.html"
                    /\ Stored(r, "data.json")
                    /\ Stored(r, "report.html")
              /\ i < Len(r.attempted) => Stored(r, r.attempted[i])
        /\ r.attempted # <<>> => r.emailed
        /\ r.failedAt = "saveReport" =>
              /\ r.outcome = "error"
              /\ r.attempted # <<>>
              /\ ~Stored(r, r.attempted[Len(r.attempted)])
              /\ ~Stored(r, "index.html")

\* an invocation ended with an error in saveReport: data.json was stored, the
\* put of report.html failed, index.html was never attempted
C30_Witness ==
    /\ Len(runLog) > 0
    /\ runLog[1].failedAt = "saveReport"
    /\ runLog[1].uploads = <<"data.json">>
    /\ runLog[1].attempted = <<"data.json", "report.html">>
    /\ runLog[1].emailed

(***************************************************************************)
(* canonicalizeUrl on one string, with its try/catch.                      *)
(***************************************************************************)
\* ---- bounds of the canonicalization ----
MaxParams == 2

\* query parameter names: two of the listed tracking names, two tracking
\* names the list does not hold, one plain name
ParamPool == {"utm_source", "gclid", "utm_id", "msclkid", "id"}
PathPool == {<<"/">>, <<"/", "a">>, <<"/", "a", "/">>, <<"/", "a", "/", "/">>}
RawUrls ==
    { Url(proto, host, path, params) :
        proto \in {"http:", "https:"}, host \in {HostAws, HostOutside},
        path \in PathPool, params \in SeqsUpTo(ParamPool, MaxParams) }
    \cup {BadUrl(""), BadUrl("not a url"), BadUrl("/relative/path")}

\* new URL(rawUrl): a TypeError for a string that does not parse
NewURL(u) == IF u.ok THEN Returned(u) ELSE Raised

\* canonicalizeUrl without its catch (a mutant)
CanonicalizeUrlSettled_NoCatch(u) ==
    IF NewURL(u).raised THEN Raised ELSE Returned(CanonicalizeUrl(u))

\* canonicalizeUrl as a call: the try block, and the catch that logs a
\* warning and returns rawUrl
CanonicalizeUrlSettled(u) ==
    IF NewURL(u).raised THEN Returned(u) ELSE Returned(CanonicalizeUrl(u))

UrlInit ==
    /\ upc = "called"
    /\ rawUrl \in RawUrls
    /\ canonicalized = NotYet
    /\ recanonicalized = NotYet

CanonicalizeUrlReturns ==
    /\ upc = "called"
    /\ canonicalized' = CanonicalizeUrlSettled(rawUrl)
    /\ upc' = "done"
    /\ UNCHANGED <<rawUrl, recanonicalized, notUrlVars>>

\* validateUrl is handed the canonical URL and canonicalizes it first
CanonicalizeUrlAgain ==
    /\ upc = "done"
    /\ ~canonicalized.raised
    /\ recanonicalized' = CanonicalizeUrlSettled(canonicalized.value)
    /\ upc' = "again"
    /\ UNCHANGED <<rawUrl, canonicalized, notUrlVars>>

UrlNext == CanonicalizeUrlReturns \/ CanonicalizeUrlAgain

\* C17: canonicalizeUrl never raises, and a string that does not parse as a
\* URL is returned exactly as it was given.
C17_FailsSoft ==
    upc \in {"done", "again"} =>
        /\ ~canonicalized.raised
        /\ ~rawUrl.ok => canonicalized.value = rawUrl

C17_Witness ==
    /\ upc = "done"
    /\ ~rawUrl.ok
    /\ rawUrl.text = "not a url"
    /\ ~canonicalized.raised
    /\ canonicalized.value = rawUrl

\* the names a reader takes for tracking parameters: utm_-prefixed names and
\* click ids
UtmPrefixed == {"utm_source", "utm_medium", "utm_campaign", "utm_term",
                "utm_content", "utm_id"}
ClickIds == {"gclid", "fbclid", "msclkid"}

ParamsOfResult == canonicalized.value.params

\* C18 (as claimed): the result of canonicalizeUrl on a parseable URL carries
\* no parameter whose name starts with utm_ and no click-id parameter.
C18_NoTrackingParams ==
    (upc = "done" /\ rawUrl.ok) =>
        \A i \in 1..Len(ParamsOfResult) :
            ParamsOfResult[i] \notin UtmPrefixed \cup ClickIds

\* C18 (amended): the result of canonicalizeUrl on a parseable URL carries
\* none of the eleven parameter names the function lists, and keeps every
\* other parameter of the input, in the input's order.
C18_ListedParamsRemoved ==
    (upc = "done" /\ rawUrl.ok) =>
        /\ \A i \in 1..Len(ParamsOfResult) : ParamsOfResult[i] \notin TrackingParams
        /\ \E keep \in SUBSET (1..Len(rawUrl.params)) :
              /\ keep = {i \in 1..Len(rawUrl.params) : rawUrl.params[i] \notin TrackingParams}
              /\ Len(ParamsOfResult) = Cardinality(keep)
              /\ \A i \in keep :
                    ParamsOfResult[Cardinality({j \in keep : j <= i})] = rawUrl.params[i]

C18_Witness ==
    /\ upc = "done"
    /\ rawUrl.ok
    /\ rawUrl.params = <<"utm_source", "utm_id">>
    /\ ParamsOfResult = <<"utm_id">>

\* C28 (as claimed): canonicalizeUrl is idempotent: applied to its own result
\* it returns that result.
C28_Idempotent ==
    upc = "again" => recanonicalized = canonicalized

(***************************************************************************)
(* determineSeverity and determineImpact on one text, under any            *)
(* configuration of keywords.                                              *)
(***************************************************************************)
ContentPool ==
    {<<>>,
     <<"C", "V", "E">>,
     <<"c", "v", "e", " ", "A", "W", "S">>,
     <<"a", "w", "s", " ", "d", "x">>,
     <<"f", "y", "i">>,
     <<"R", "E", "L", " ", "c", "V", "e">>}

\* config.severity_rules
RulesPool ==
    {[high |-> <<>>, medium |-> <<>>, low |-> <<>>],
     SeverityRules,
     [high |-> << <<"C", "V", "E">> >>, medium |-> << <<"c", "v", "e">> >>, low |-> <<>>],
     [high |-> <<>>, medium |-> << <<"d", "x">>, <<"a", "w", "s">> >>,
      low |-> << <<"f", "y", "i">> >>],
     [high |-> << <<"z", "z">> >>, medium |-> << <<"c", "v", "e">> >>,
      low |-> << <<"a", "w", "s">> >>]}

\* config.impact_keywords, as Object.entries yields it: one entry per key
ImpactMapPool ==
    {<<>>,
     ImpactKeywords,
     << [tag |-> "Platform", keywords |-> << <<"z", "z">> >>],
        [tag |-> "Security", keywords |-> << <<"C", "V", "E">>, <<"c", "v", "e">> >>] >>,
     << [tag |-> "Cost", keywords |-> <<>>] >>,
     << [tag |-> "DX", keywords |-> << <<"d", "x">> >>],
        [tag |-> "Regulatory", keywords |-> << <<"A", "w", "s">> >>],
        [tag |-> "Security", keywords |-> << <<"c", "v", "e">> >>] >>}

ClassifyIdle ==
    /\ cpc = {}
    /\ theContent = <<>>
    /\ theRules = SeverityRules
    /\ theImpactMap = <<>>
    /\ severityOut = "none"
    /\ impactsOut = <<>>

ClassifyInit ==
    /\ cpc = {}
    /\ theContent \in ContentPool
    /\ theRules \in RulesPool
    /\ theImpactMap \in ImpactMapPool
    /\ severityOut = "none"
    /\ impactsOut = <<>>

DetermineSeverityReturns ==
    /\ "severity" \notin cpc
    /\ severityOut' = DetermineSeverityWith(theRules, theContent)
    /\ cpc' = cpc \cup {"severity"}
    /\ UNCHANGED <<theContent, theRules, theImpactMap, impactsOut, notClassifyVars>>

DetermineImpactReturns ==
    /\ "impact" \notin cpc
    /\ impactsOut' = DetermineImpactWith(theImpactMap, theContent)
    /\ cpc' = cpc \cup {"impact"}
    /\ UNCHANGED <<theContent, theRules, theImpactMap, severityOut, notClassifyVars>>

ClassifyNext == DetermineSeverityReturns \/ DetermineImpactReturns

\* two characters are the same letter, case apart
SameLetter(a, b) ==
    \/ a = b
    \/ a \in DOMAIN UpperToLower /\ UpperToLower[a] = b
    \/ b \in DOMAIN UpperToLower /\ UpperToLower[b] = a

\* the keyword is a case-insensitive substring of the text
OccursIn(k, text) ==
    \E off \in 0..(Len(text) - Len(k)) :
        \A j \in 1..Len(k) : SameLetter(text[off + j], k[j])

SomeOccurs(keywords, text) == \E i \in 1..Len(keywords) : OccursIn(keywords[i], text)

\* C23: determineSeverity returns high iff some high keyword is a
\* case-insensitive substring of the text, medium iff no high keyword matches
\* and some medium keyword does, and low in every other case.
C23_SeverityFirstMatch ==
    "severity" \in cpc =>
        /\ severityOut \in {"high", "medium", "low"}
        /\ severityOut = "high" <=> SomeOccurs(theRules.high, theContent)
        /\ severityOut = "medium" <=>
              (~SomeOccurs(theRules.high, theContent)
               /\ SomeOccurs(theRules.medium, theContent))

\* a keyword of the high list and one of the medium list both match, in
\* another case than the text's, and the answer is high
C23_Witness ==
    /\ "severity" \in cpc
    /\ theContent = <<"R", "E", "L", " ", "c", "V", "e">>
    /\ theRules.high = << <<"C", "V", "E">> >>
    /\ theRules.medium = << <<"c", "v", "e">> >>
    /\ severityOut = "high"

TagMatches(i) == SomeOccurs(theImpactMap[i].keywords, theContent)

\* C24: determineImpact returns a non-empty list without repeated tags; when
\* some keyword matches, it holds tag T iff a keyword of T is a
\* case-insensitive substring of the text; when none matches, it is the
\* single tag Platform.
C24_ImpactTags ==
    "impact" \in cpc =>
        /\ Len(impactsOut) > 0
        /\ \A i, j \in 1..Len(impactsOut) : impactsOut[i] = impactsOut[j] => i = j
        /\ IF \E i \in 1..Len(theImpactMap) : TagMatches(i)
           THEN /\ \A i \in 1..Len(theImpactMap) :
                      TagMatches(i) <=>
                         \E k \in 1..Len(impactsOut) : impactsOut[k] = theImpactMap[i].tag
                /\ \A k \in 1..Len(impactsOut) :
                      \E i \in 1..Len(theImpactMap) : impactsOut[k] = theImpactMap[i].tag
           ELSE impactsOut = <<"Platform">>

\* two keywords of one tag match and the tag is listed once; a map whose
\* Platform keywords do not match
C24_Witness ==
    /\ "impact" \in cpc
    /\ theContent = <<"C", "V", "E">>
    /\ Len(theImpactMap) = 2
    /\ theImpactMap[1].tag = "Platform"
    /\ impactsOut = <<"Security">>

(***************************************************************************)
(* The specifications.                                                     *)
(***************************************************************************)
InitResearch ==
    ResearchInit /\ ScanIdle /\ FetchIdle /\ ValidationIdle /\ HandlerIdle /\ UrlIdle
    /\ ClassifyIdle

SpecResearch == InitResearch /\ [][ResearchNext]_vars

InitScan ==
    ResearchIdle /\ ScanInit /\ FetchIdle /\ ValidationIdle /\ HandlerIdle /\ UrlIdle
    /\ ClassifyIdle

SpecScan == InitScan /\ [][ScanNext]_vars

InitFetch ==
    ResearchIdle /\ ScanIdle /\ FetchInit /\ ValidationIdle /\ HandlerIdle /\ UrlIdle
    /\ ClassifyIdle

SpecFetch == InitFetch /\ [][FetchNext]_vars

InitValidation ==
    ResearchIdle /\ ScanIdle /\ FetchIdle /\ ValidationInit /\ HandlerIdle /\ UrlIdle
    /\ ClassifyIdle

SpecValidation == InitValidation /\ [][ValidationNext]_vars

InitUrl ==
    ResearchIdle /\ ScanIdle /\ FetchIdle /\ ValidationIdle /\ HandlerIdle /\ UrlInit
    /\ ClassifyIdle

SpecUrl == InitUrl /\ [][UrlNext]_vars

InitClassify ==
    ResearchIdle /\ ScanIdle /\ FetchIdle /\ ValidationIdle /\ HandlerIdle /\ UrlIdle
    /\ ClassifyInit

SpecClassify == InitClassify /\ [][ClassifyNext]_vars

InitHandler ==
    ResearchIdle /\ ScanIdle /\ FetchIdle /\ ValidationIdle /\ HandlerInit /\ UrlIdle
    /\ ClassifyIdle

SpecHandler == InitHandler /\ [][HandlerNext]_vars

=============================================================================
